---- MODULE Spec2Model ----
(***************************************************************************)
(* A model of the POS receipt normalization pipeline (package pos_norm):   *)
(* the merge-and-validate stage and the LLM normalize-and-group stage.     *)
(*                                                                         *)
(* Encodings.  Confidences and thresholds are integers in hundredths       *)
(* (0.85 is 85, 95.0 is 9500).  A Python value whose type matters is a      *)
(* record [k, v]: k is "none" (None), "int"/"num" (a number, v) or "other"  *)
(* (a value of another type).  A payload that should be a list is a record *)
(* [is_list, elems].  The string None stands for None in a string field.   *)
(***************************************************************************)
EXTENDS Integers, Sequences, FiniteSets, TLC

VARIABLES
    pc,            \* position of the pipeline run
    order_raw,     \* OrderRawParsed: [lines, needs_review]
    candidates,    \* CandidatesByLine: line_index -> sequence of CandidateItem
    menu_catalog,  \* MenuCatalog: [kind, ids]
    thresholds,    \* [item, mods, group], as passed to merge_and_validate
    structured,    \* StructuredResult: [items, groups, audit_events, metadata]
    merged,        \* OrderNormalized returned by merge_and_validate
    llm_client,    \* the client given to llm_normalize_and_group: [kind, accepts]
    prompt_ok,     \* whether the prompt template can be read and rendered
    stage,         \* locals of llm_normalize_and_group while it runs
    client_log,    \* what the client's callable did each time it was executed
    _store,        \* MemoryCacheBackend._store: <<namespace, key>> -> CacheEntry
    clock,         \* time.time()
    cache_calls,   \* the POSNormCache call each caller is in: [pc, op, key, entry, result]
    last_write,    \* per <<namespace, key>>, the last completed set or invalidate
    key_inputs,    \* the namespaces and key payloads given to _make_key
    made_keys,     \* the keys _make_key returned for them
    log_file,      \* the audit log file: the blocks written to it
    o_append,      \* whether the platform appends a write to an O_APPEND file atomically
    audit_calls,   \* the AuditLogger call each caller is in
    written,       \* the payloads of the write_event calls that returned, in order
    listed,        \* what the last list_events, list_by_type or list_review_queue returned
    receipt_text,  \* the receipt text given to parse_receipt_text or ingest_receipt, by line
    ingest         \* locals of ingest_receipt while it runs, and its response

pipeline_vars == <<pc, order_raw, candidates, menu_catalog, thresholds, structured, merged,
                   llm_client, prompt_ok, stage, client_log>>

cache_vars == <<_store, clock, cache_calls, last_write>>

key_vars == <<key_inputs, made_keys>>

audit_vars == <<log_file, o_append, audit_calls, written, listed>>

entry_vars == <<receipt_text, ingest>>

lib_vars == <<cache_vars, key_vars, audit_vars, entry_vars>>

vars == <<pipeline_vars, lib_vars>>

\* the cache and the audit log are not in use
LibraryIdle ==
    /\ _store = <<>> /\ clock = 0 /\ cache_calls = <<>> /\ last_write = <<>>
    /\ key_inputs = <<>> /\ made_keys = <<>>
    /\ log_file = <<>> /\ o_append = "atomic" /\ audit_calls = <<>>
    /\ written = <<>> /\ listed = <<>>
    /\ receipt_text = <<>> /\ ingest = <<>>

call_vars == <<llm_client, prompt_ok, stage, client_log>>

\* ------------------------------------------------------------------ values

None == "None"
Missing == "<missing>"
NullConf == -1
NoLine == -1
NotAnInt == -7

NoneV == [k |-> "none", v |-> 0]
OtherV == [k |-> "other", v |-> 0]
IntV(n) == [k |-> "int", v |-> n]
NumV(n) == [k |-> "num", v |-> n]

ListV(s) == [is_list |-> TRUE, elems |-> s]
NotAList == [is_list |-> FALSE, elems |-> <<>>]

_DEFAULT_THRESHOLD == 85
_VALID_GROUP_TYPES == {"pack_together", "separate", "other"}
_ROUTE_AUTO_DISPATCH == "auto-dispatch"
_ROUTE_REVIEW_QUEUE == "review-queue"

\* str.strip() on the strings the inputs are drawn from
Strip(s) ==
    CASE s = " I001 " -> "I001"
      [] s = "  " -> ""
      [] s = " soup " -> "soup"
      [] s = " a " -> "a"
      [] OTHER -> s

\* isinstance(x, str) and x.strip()
NonBlankStr(s) == s # None /\ s # Missing /\ Strip(s) # ""

Range(s) == {s[i] : i \in 1..Len(s)}

RECURSIVE SeqsUpTo(_, _)
SeqsUpTo(S, n) ==
    IF n = 0 THEN {<<>>}
    ELSE LET shorter == SeqsUpTo(S, n - 1)
         IN  shorter \cup {Append(s, x) : s \in {t \in shorter : Len(t) = n - 1}, x \in S}

AnyTrue(s) == \E i \in 1..Len(s) : s[i]

\* --------------------------------------------------------- merge_validate

CopyRawLineDroppingNote(line) ==
    [line_index |-> line.line_index, raw_line |-> line.raw_line,
     name_raw |-> line.name_raw, qty |-> line.qty, note_raw |-> None,
     needs_review |-> line.needs_review]

_copy_raw_line(line) ==
    [line_index |-> line.line_index, raw_line |-> line.raw_line,
     name_raw |-> line.name_raw, qty |-> line.qty, note_raw |-> line.note_raw,
     needs_review |-> line.needs_review]

\* AuditEvent: metadata is reduced to its group_id and tags entries
AuditEvent(event_type, message, line_index, group_id, tags) ==
    [event_type |-> event_type, message |-> message, line_index |-> line_index,
     item_index |-> NoLine, group_id |-> group_id, tags |-> tags]

_audit(event_type, line_index, group_id) ==
    AuditEvent(event_type, "merge", line_index, group_id, {})

\* the structured stage's events are not copied
CopyNoAuditEvents(raw_events) == <<>>

_copy_audit_events(raw_events) ==
    IF ~raw_events.is_list THEN <<>>
    ELSE [i \in 1..Len(raw_events.elems) |->
             LET raw == raw_events.elems[i]
                 event == AuditEvent(IF NonBlankStr(raw.event_type) THEN raw.event_type
                                     ELSE "merge_validate_info",
                                     IF NonBlankStr(raw.message) THEN raw.message
                                     ELSE "merge_validate_event",
                                     IF raw.line_index = NotAnInt THEN NoLine
                                     ELSE raw.line_index,
                                     raw.group_id, raw.tags)
             IN  [event EXCEPT !.item_index = IF raw.item_index = NotAnInt THEN NoLine
                                              ELSE raw.item_index]]

_normalize_threshold(value) ==
    IF value.k # "num" THEN _DEFAULT_THRESHOLD
    ELSE IF value.v < 0 THEN 0
    ELSE IF value.v > 100 THEN 100
    ELSE value.v

_normalize_confidence(value) ==
    IF value.k # "num" THEN NullConf
    ELSE IF value.v < 0 THEN NullConf
    ELSE IF value.v <= 100 THEN value.v
    ELSE IF value.v <= 10000 THEN value.v \div 100
    ELSE NullConf

BelowThreshold(conf, threshold) == conf = NullConf \/ conf < threshold

CandidateCodes(cands) ==
    UNION {{cands[li][i].candidate_code : i \in 1..Len(cands[li])} : li \in DOMAIN cands}

_catalog_ids(catalog, cands) ==
    IF catalog.kind = "mapping" THEN catalog.ids
    ELSE IF catalog.kind = "list" /\ catalog.ids # {} THEN catalog.ids
    ELSE {c \in CandidateCodes(cands) : c # None /\ c # ""}

FirstCandidateWhateverItsCode(line_candidates, item_code) ==
    IF item_code = None \/ item_code = "" THEN 0
    ELSE IF line_candidates = <<>> THEN 0 ELSE 1

\* index (1-based, 0 for None) of the first candidate carrying item_code
_find_candidate_by_code(line_candidates, item_code) ==
    IF item_code = None \/ item_code = "" THEN 0
    ELSE LET hits == {i \in 1..Len(line_candidates) :
                         line_candidates[i].candidate_code = item_code}
         IN  IF hits = {} THEN 0 ELSE CHOOSE i \in hits : \A j \in hits : i <= j

Cond(b, s) == IF b THEN s ELSE <<>>

\* <<>> for None, else <<Mod>>
_normalize_mod(raw_mod, default_confidence) ==
    IF raw_mod.kind = "str"
    THEN IF Strip(raw_mod.text) = "" THEN <<>>
         ELSE <<[mod_raw |-> Strip(raw_mod.text), confidence |-> default_confidence,
                 needs_review |-> FALSE]>>
    ELSE LET token == IF NonBlankStr(raw_mod.mod_raw) THEN raw_mod.mod_raw
                      ELSE IF NonBlankStr(raw_mod.mod_name) THEN raw_mod.mod_name
                      ELSE raw_mod.mod_value
             confidence == _normalize_confidence(raw_mod.confidence)
         IN  IF ~NonBlankStr(token) THEN <<>>
             ELSE <<[mod_raw |-> Strip(token),
                     confidence |-> IF confidence = NullConf THEN default_confidence
                                    ELSE confidence,
                     needs_review |-> raw_mod.needs_review]>>

\* [by_line |-> line_index -> raw item, events |-> audit events], first item wins
RECURSIVE _collect_llm_items(_, _)
_collect_llm_items(raw_items, valid_line_indices) ==
    IF ~raw_items.is_list \/ raw_items.elems = <<>>
    THEN [by_line |-> <<>>, events |-> <<>>]
    ELSE LET n == Len(raw_items.elems)
             before == _collect_llm_items(ListV(SubSeq(raw_items.elems, 1, n - 1)),
                                          valid_line_indices)
             raw == raw_items.elems[n]
             line_index == raw.line_index
         IN  IF line_index.k # "int" \/ line_index.v \notin valid_line_indices
             THEN [by_line |-> before.by_line,
                   events |-> Append(before.events,
                       _audit("item_invalid_line_index",
                              IF line_index.k = "int" THEN line_index.v ELSE NoLine, None))]
             ELSE IF line_index.v \in DOMAIN before.by_line
             THEN [by_line |-> before.by_line,
                   events |-> Append(before.events,
                       _audit("item_duplicate_line_index", line_index.v, None))]
             ELSE [by_line |-> [li \in DOMAIN before.by_line \cup {line_index.v} |->
                                   IF li = line_index.v THEN raw ELSE before.by_line[li]],
                   events |-> before.events]

\* llm_opt is <<>> when the line has no LLM item, else <<raw item>>
\* returns [item |-> NormalizedItem, events |-> audit events appended]
_merge_one_item(line, llm_opt, line_candidates, valid_catalog_ids, item_threshold, mods_threshold) ==
    LET present == llm_opt # <<>>
        llm_item == llm_opt[1]
        primary == IF line_candidates # <<>> THEN 1 ELSE 0
        llm_qty == IF present THEN llm_item.qty ELSE NoneV
        qty_nonpositive == present /\ llm_qty.k = "int" /\ llm_qty.v <= 0
        qty_not_int == present /\ llm_qty.k = "other"
        qty == IF present /\ llm_qty.k = "int" /\ llm_qty.v > 0 THEN llm_qty.v ELSE line.qty
        qty_final_invalid == qty <= 0
        confidence_item == IF present THEN _normalize_confidence(llm_item.confidence_item)
                           ELSE NullConf
        confidence_mods == IF present THEN _normalize_confidence(llm_item.confidence_mods)
                           ELSE NullConf
        item_code_raw == IF present /\ NonBlankStr(llm_item.item_code) THEN llm_item.item_code
                         ELSE IF present THEN llm_item.item_id
                         ELSE None
        item_code0 == IF NonBlankStr(item_code_raw) THEN Strip(item_code_raw) ELSE None
        not_in_catalog == item_code0 # None /\ item_code0 \notin valid_catalog_ids
        item_code1 == IF not_in_catalog THEN None ELSE item_code0
        selected1 == _find_candidate_by_code(line_candidates, item_code1)
        not_in_line == item_code1 # None /\ selected1 = 0
        item_code2 == IF not_in_line THEN None ELSE item_code1
        use_primary == /\ item_code2 = None
                       /\ primary # 0
                       /\ line_candidates[1].candidate_code # None
                       /\ line_candidates[1].candidate_code # ""
                       /\ line_candidates[1].candidate_code \in valid_catalog_ids
        item_code == IF use_primary THEN line_candidates[1].candidate_code ELSE item_code2
        selected == IF use_primary THEN 1 ELSE selected1
        name_llm == IF present /\ NonBlankStr(llm_item.name_normalized)
                    THEN llm_item.name_normalized ELSE None
        name_from_candidate == name_llm = None /\ selected # 0
        name_from_raw == name_llm = None /\ selected = 0
        name_normalized == IF name_llm # None THEN name_llm
                           ELSE IF selected # 0 THEN line_candidates[selected].candidate_name
                           ELSE line.name_raw
        mods_invalid_shape == present /\ ~llm_item.mods.is_list
        raw_mods == IF present /\ llm_item.mods.is_list THEN llm_item.mods.elems ELSE <<>>
        normalized == [i \in 1..Len(raw_mods) |-> _normalize_mod(raw_mods[i], confidence_mods)]
        kept == {i \in 1..Len(raw_mods) : normalized[i] # <<>>}
        mod_dropped == kept # 1..Len(raw_mods)
        MergedMod(m) == [mod_raw |-> m.mod_raw, confidence |-> m.confidence,
                         needs_review |-> m.needs_review
                                          \/ BelowThreshold(m.confidence, mods_threshold)]
        mods == [i \in 1..Cardinality(kept) |->
                    LET k == CHOOSE k \in kept : Cardinality({j \in kept : j < k}) = i - 1
                    IN  MergedMod(normalized[k][1])]
        llm_item_needs_review == IF present THEN llm_item.needs_review ELSE TRUE
        fallback_reason ==
            IF not_in_line THEN "item_code_not_in_line_candidates"
            ELSE IF use_primary THEN "candidate_fallback"
            ELSE IF name_from_candidate /\ present THEN "name_from_candidate"
            ELSE IF name_from_raw THEN "name_from_raw"
            ELSE IF ~present THEN "llm_item_missing"
            ELSE None
        needs_review ==
            \/ line.needs_review
            \/ qty_nonpositive \/ qty_not_int \/ qty_final_invalid
            \/ BelowThreshold(confidence_item, item_threshold)
            \/ BelowThreshold(confidence_mods, mods_threshold)
            \/ not_in_catalog \/ not_in_line \/ use_primary
            \/ (name_from_candidate /\ present) \/ name_from_raw
            \/ mods_invalid_shape \/ mod_dropped
            \/ ~present \/ llm_item_needs_review
        li == line.line_index
    IN  [item |->
            [line_index |-> li, raw_line |-> line.raw_line, name_raw |-> line.name_raw,
             qty |-> qty, name_normalized |-> name_normalized, item_code |-> item_code,
             note_raw |-> line.note_raw, mods |-> mods,
             confidence_item |-> confidence_item, confidence_mods |-> confidence_mods,
             needs_review |-> needs_review,
             metadata |-> [merge_source |-> IF present THEN "llm" ELSE "fallback",
                           fallback_reason |-> fallback_reason,
                           catalog_valid |-> item_code # None /\ item_code # ""
                                             /\ item_code \in valid_catalog_ids]],
         events |->
            Cond(qty_nonpositive \/ qty_not_int, <<_audit("qty_invalid", li, None)>>)
            \o Cond(qty_final_invalid, <<_audit("qty_invalid", li, None)>>)
            \o Cond(not_in_catalog, <<_audit("item_code_not_in_catalog", li, None)>>)
            \o Cond(not_in_line, <<_audit("item_code_not_in_line_candidates", li, None)>>)
            \o Cond(use_primary, <<_audit("item_fallback_to_candidate", li, None)>>)
            \o Cond(mods_invalid_shape, <<_audit("mods_invalid_shape", li, None)>>)
            \o Cond(~present, <<_audit("llm_item_missing", li, None)>>)]

RECURSIVE CleanedIndicesKeepingDuplicates(_, _)
CleanedIndicesKeepingDuplicates(raw_indices, valid_line_indices) ==
    IF raw_indices = <<>> THEN <<>>
    ELSE LET n == Len(raw_indices)
             before == CleanedIndicesKeepingDuplicates(SubSeq(raw_indices, 1, n - 1),
                                                       valid_line_indices)
             line_index == raw_indices[n]
         IN  IF line_index = NotAnInt \/ line_index \notin valid_line_indices THEN before
             ELSE Append(before, line_index)

\* line_indices that are parser indices, first occurrence only, in input order
RECURSIVE CleanedIndices(_, _)
CleanedIndices(raw_indices, valid_line_indices) ==
    IF raw_indices = <<>> THEN <<>>
    ELSE LET n == Len(raw_indices)
             before == CleanedIndices(SubSeq(raw_indices, 1, n - 1), valid_line_indices)
             line_index == raw_indices[n]
         IN  IF line_index = NotAnInt \/ line_index \notin valid_line_indices THEN before
             ELSE IF line_index \in Range(before) THEN before
             ELSE Append(before, line_index)

\* the first-wins claim: indices an earlier group owns are removed
ClaimIndicesIgnoringOwners(cleaned, occupied) == cleaned

ClaimIndices(cleaned, occupied) == SelectSeq(cleaned, LAMBDA x : x \notin occupied)

TooFewLinesOffByOne(final_indices) == Len(final_indices) < 1

TooFewLines(final_indices) == Len(final_indices) < 2

\* one iteration of the loop of _merge_groups: raw is raw_groups[idx] (idx from 1),
\* occupied the indices claimed by the groups before it
MergeOneGroup(raw, idx, occupied, valid_line_indices, group_threshold) ==
    LET group_id == IF NonBlankStr(raw.group_id) THEN raw.group_id ELSE "G" \o ToString(idx)
        group_type_raw == IF raw.type = Missing THEN "other" ELSE raw.type
        group_type == IF group_type_raw \in _VALID_GROUP_TYPES THEN group_type_raw ELSE "other"
        invalid_indices_shape == ~raw.line_indices.is_list
        raw_indices == IF raw.line_indices.is_list THEN raw.line_indices.elems ELSE <<>>
        cleaned == CleanedIndices(raw_indices, valid_line_indices)
        out_of_range_found == \E i \in 1..Len(raw_indices) :
            raw_indices[i] = NotAnInt \/ raw_indices[i] \notin valid_line_indices
        duplicated_found == \E i, j \in 1..Len(raw_indices) :
            i < j /\ raw_indices[i] = raw_indices[j] /\ raw_indices[i] \in Range(cleaned)
        conflict_found == \E i \in 1..Len(cleaned) : cleaned[i] \in occupied
        final_indices == ClaimIndices(cleaned, occupied)
        confidence_group == _normalize_confidence(raw.confidence_group)
        low_confidence == BelowThreshold(confidence_group, group_threshold)
        too_few_lines == TooFewLines(final_indices)
        needs_review ==
            \/ raw.needs_review
            \/ invalid_indices_shape
            \/ out_of_range_found
            \/ duplicated_found
            \/ conflict_found
            \/ too_few_lines
            \/ low_confidence
            \/ group_type # group_type_raw
    IN  [group |-> [group_id |-> group_id, type |-> group_type,
                    line_indices |-> final_indices,
                    confidence_group |-> confidence_group,
                    needs_review |-> needs_review,
                    metadata |-> [source |-> IF "metadata" \in DOMAIN raw
                                             THEN raw.metadata.source ELSE "llm"]],
         occupied |-> occupied \cup Range(final_indices),
         events |->
            Cond(invalid_indices_shape,
                 <<_audit("group_line_indices_invalid_shape", NoLine, group_id)>>)
            \o Cond(out_of_range_found,
                    <<_audit("group_line_index_out_of_range", NoLine, group_id)>>)
            \o Cond(duplicated_found,
                    <<_audit("group_line_index_duplicated", NoLine, group_id)>>)
            \o Cond(conflict_found, <<_audit("group_line_conflict", NoLine, group_id)>>)
            \o Cond(too_few_lines, <<_audit("group_too_few_lines", NoLine, group_id)>>)]

\* [merged |-> GroupResult list, occupied |-> claimed indices, events |-> audit events]
RECURSIVE _merge_groups(_, _, _)
_merge_groups(raw_groups, valid_line_indices, group_threshold) ==
    IF ~raw_groups.is_list \/ raw_groups.elems = <<>>
    THEN [merged |-> <<>>, occupied |-> {}, events |-> <<>>]
    ELSE LET n == Len(raw_groups.elems)
             before == _merge_groups(ListV(SubSeq(raw_groups.elems, 1, n - 1)),
                                     valid_line_indices, group_threshold)
             one == MergeOneGroup(raw_groups.elems[n], n, before.occupied,
                                  valid_line_indices, group_threshold)
         IN  [merged |-> Append(before.merged, one.group),
              occupied |-> one.occupied,
              events |-> before.events \o one.events]

DispatchWithoutItemCodeReason(raw, items, groups, overall_needs_review) ==
    LET reasons ==
            Cond(raw.needs_review, <<"order_raw_needs_review">>)
            \o Cond(\E i \in 1..Len(items) : items[i].needs_review, <<"item_needs_review">>)
            \o Cond(\E i \in 1..Len(groups) : groups[i].needs_review, <<"group_needs_review">>)
            \o Cond(\E i \in 1..Len(items) : items[i].qty <= 0, <<"invalid_qty">>)
        should_review == overall_needs_review \/ reasons # <<>>
    IN  [route |-> IF should_review THEN _ROUTE_REVIEW_QUEUE ELSE _ROUTE_AUTO_DISPATCH,
         should_auto_dispatch |-> ~should_review,
         reasons |-> reasons]

_build_dispatch_decision(raw, items, groups, overall_needs_review) ==
    LET reasons ==
            Cond(raw.needs_review, <<"order_raw_needs_review">>)
            \o Cond(\E i \in 1..Len(items) : items[i].needs_review, <<"item_needs_review">>)
            \o Cond(\E i \in 1..Len(groups) : groups[i].needs_review, <<"group_needs_review">>)
            \o Cond(\E i \in 1..Len(items) : items[i].item_code = None, <<"missing_item_code">>)
            \o Cond(\E i \in 1..Len(items) : items[i].qty <= 0, <<"invalid_qty">>)
        should_review == overall_needs_review \/ reasons # <<>>
    IN  [route |-> IF should_review THEN _ROUTE_REVIEW_QUEUE ELSE _ROUTE_AUTO_DISPATCH,
         should_auto_dispatch |-> ~should_review,
         reasons |-> reasons]

OverallIgnoringGroups(raw, items, groups) ==
    \/ raw.needs_review
    \/ \E i \in 1..Len(items) : items[i].needs_review

OverallNeedsReview(raw, items, groups) ==
    \/ raw.needs_review
    \/ \E i \in 1..Len(items) : items[i].needs_review
    \/ \E i \in 1..Len(groups) : groups[i].needs_review

merge_and_validate(raw, cands, structured_result, catalog, thr) ==
    LET item_threshold == _normalize_threshold(thr.item)
        mods_threshold == _normalize_threshold(thr.mods)
        group_threshold == _normalize_threshold(thr.group)
        copied_lines == [i \in 1..Len(raw.lines) |-> _copy_raw_line(raw.lines[i])]
        valid_line_indices == {copied_lines[i].line_index : i \in 1..Len(copied_lines)}
        valid_catalog_ids == _catalog_ids(catalog, cands)
        copied_events == _copy_audit_events(structured_result.audit_events)
        collected == _collect_llm_items(structured_result.items, valid_line_indices)
        one == [i \in 1..Len(copied_lines) |->
                   LET line == copied_lines[i]
                       li == line.line_index
                   IN  _merge_one_item(line,
                           IF li \in DOMAIN collected.by_line
                           THEN <<collected.by_line[li]>> ELSE <<>>,
                           IF li \in DOMAIN cands THEN cands[li] ELSE <<>>,
                           valid_catalog_ids, item_threshold, mods_threshold)]
        items == [i \in 1..Len(copied_lines) |-> one[i].item]
        ItemEvents[i \in 0..Len(copied_lines)] ==
            IF i = 0 THEN <<>> ELSE ItemEvents[i - 1] \o one[i].events
        grouped == _merge_groups(structured_result.groups, valid_line_indices, group_threshold)
        groups == grouped.merged
        overall_needs_review == OverallNeedsReview(raw, items, groups)
    IN  [lines |-> copied_lines,
         items |-> items,
         groups |-> groups,
         audit_events |-> copied_events \o collected.events
                          \o ItemEvents[Len(copied_lines)] \o grouped.events,
         overall_needs_review |-> overall_needs_review,
         metadata |-> [structured_result_metadata |-> structured_result.metadata,
                       thresholds |-> [item_threshold |-> item_threshold,
                                       mods_threshold |-> mods_threshold,
                                       group_threshold |-> group_threshold],
                       dispatch_decision |->
                           _build_dispatch_decision(raw, items, groups, overall_needs_review)]]

\* ------------------------------------------------------------------ inputs

MaxLines == 2

\* the parser keeps the position in the text: line 2 of the text was a noise line
LineIndexAt(k) == IF k <= 2 THEN k - 1 ELSE k
SkippedLineIndex == 2

RawLine(li, needs_review) ==
    [line_index |-> li, raw_line |-> "raw" \o ToString(li),
     name_raw |-> "name" \o ToString(li), qty |-> li + 1,
     note_raw |-> IF li % 2 = 0 THEN None ELSE "note" \o ToString(li),
     needs_review |-> needs_review]

\* what parse_receipt_text can return: every line it flags also flags the order,
\* and a warning alone (a dropped standalone note) flags the order too
OrderInputs ==
    {[lines |-> [k \in 1..n |-> RawLine(LineIndexAt(k), k = flagged)],
      needs_review |-> (flagged # 0 \/ warned)] :
        n \in 0..MaxLines, flagged \in 0..1, warned \in BOOLEAN}

LineIndices(raw) == {raw.lines[i].line_index : i \in 1..Len(raw.lines)}

CodeOf(li) == CASE li % 3 = 0 -> "I001" [] li % 3 = 1 -> "I002" [] OTHER -> "I003"

CandidateItem(code, name) == [candidate_code |-> code, candidate_name |-> name]

CandidateLayouts == {"per_line", "empty", "uncatalogued", "nocode"}

CandidatesFor(raw, layout) ==
    CASE layout = "per_line" ->
           [li \in LineIndices(raw) |->
               <<CandidateItem(CodeOf(li), "c" \o CodeOf(li)),
                 CandidateItem(CodeOf(li + 1), "c" \o CodeOf(li + 1))>>]
      [] layout = "uncatalogued" ->
           [li \in LineIndices(raw) |->
               <<CandidateItem("X999", "cX999"),
                 CandidateItem(CodeOf(li), "c" \o CodeOf(li))>>]
      [] layout = "nocode" ->
           [li \in LineIndices(raw) |-> <<CandidateItem(None, "cNone")>>]
      [] OTHER -> [li \in {} |-> <<>>]

MappingCatalog == [kind |-> "mapping", ids |-> {"I001", "I002", "I003"}]
NoCatalog == [kind |-> "none", ids |-> {}]

DefaultThresholds == [item |-> NoneV, mods |-> NoneV, group |-> NoneV]
RelaxedThresholds == [item |-> NumV(75), mods |-> NumV(75), group |-> NumV(75)]

StrMod(text) ==
    [kind |-> "str", text |-> text, mod_raw |-> None, mod_name |-> None,
     mod_value |-> None, confidence |-> NoneV, needs_review |-> FALSE]
ObjMod(mod_raw, mod_name, confidence, needs_review) ==
    [kind |-> "obj", text |-> None, mod_raw |-> mod_raw, mod_name |-> mod_name,
     mod_value |-> None, confidence |-> confidence, needs_review |-> needs_review]

ModsInputs ==
    {NotAList,
     ListV(<<StrMod("spicy")>>),
     ListV(<<StrMod("  ")>>),
     ListV(<<ObjMod("spicy", None, NumV(95), FALSE)>>),
     ListV(<<ObjMod("spicy", None, NumV(50), FALSE)>>),
     ListV(<<ObjMod("spicy", None, NumV(95), TRUE)>>),
     ListV(<<ObjMod(None, "no_ice", NoneV, FALSE)>>),
     ListV(<<ObjMod(None, None, NumV(95), FALSE), StrMod("spicy")>>)}

\* the item an LLM stage proposes for line li: the top per_line candidate, confident
GoodItem(li) ==
    [line_index |-> IntV(li), item_code |-> CodeOf(li), item_id |-> None,
     qty |-> NoneV, confidence_item |-> NumV(95), confidence_mods |-> NumV(95),
     name_normalized |-> "N" \o ToString(li), needs_review |-> FALSE,
     mods |-> ListV(<<>>),
     raw_line |-> "dummy_raw", name_raw |-> "dummy_name", note_raw |-> "dummy_note"]

ItemCodeInputs == {None, "  ", " I001 ", "I001", "I002", "I003", "X999"}
ItemIdInputs == {None, "I002", "X999"}

ItemVariants(li) ==
    LET g == GoodItem(li)
    IN  {[g EXCEPT !.item_code = c, !.item_id = d] : c \in ItemCodeInputs, d \in ItemIdInputs}
        \cup {[g EXCEPT !.qty = q] : q \in {IntV(3), IntV(0), OtherV}}
        \cup {[g EXCEPT !.confidence_item = c] :
                 c \in {NoneV, OtherV, NumV(-100), NumV(50), NumV(80), NumV(9500), NumV(20000)}}
        \cup {[g EXCEPT !.confidence_mods = c] : c \in {NoneV, NumV(50), NumV(80)}}
        \cup {[g EXCEPT !.name_normalized = nm] : nm \in {None, "  "}}
        \cup {[g EXCEPT !.needs_review = TRUE]}
        \cup {[g EXCEPT !.mods = m] : m \in ModsInputs}

Reverse(s) == [i \in 1..Len(s) |-> s[Len(s) + 1 - i]]

\* One line of the order (the deviant) gets any variant; every other line gets the
\* good item or none.  Then the list is left as is, reversed, or extended by an item
\* for no parser line or by a second item for the first line.
ItemListInputs(raw) ==
    LET n == Len(raw.lines)
        li(k) == raw.lines[k].line_index
        Lists == IF n = 0 THEN {<<>>}
                 ELSE UNION {
                    {LET chosen == {k \in 1..n : k = p \/ keep[k]}
                         at(i) == CHOOSE k \in chosen :
                                     Cardinality({j \in chosen : j < k}) = i - 1
                     IN  [i \in 1..Cardinality(chosen) |->
                             IF at(i) = p THEN v ELSE GoodItem(li(at(i)))]
                       : v \in ItemVariants(li(p))}
                    : p \in 1..n, keep \in [1..n -> BOOLEAN]}
                    \cup {<<>>}
        stray == [GoodItem(SkippedLineIndex) EXCEPT !.item_code = "I001"]
        typed == [stray EXCEPT !.line_index = OtherV]
        again == [GoodItem(LineIndexAt(1)) EXCEPT !.needs_review = TRUE]
    IN  Lists
        \cup {Reverse(l) : l \in Lists}
        \cup {Append(l, stray) : l \in Lists}
        \cup {<<typed>> \o l : l \in Lists}
        \cup {Append(l, again) : l \in Lists}
        \cup {<<again>> \o l : l \in Lists}

GroupInput(group_id, type, indices, confidence, needs_review) ==
    [group_id |-> group_id, type |-> type, line_indices |-> indices,
     confidence_group |-> confidence, needs_review |-> needs_review]

Event(event_type, message, line_index, tags) ==
    AuditEvent(event_type, message, line_index, None, tags)

NoMetadata == [fallback_reason |-> None, llm_attempts |-> 0,
               review_queue |-> [needs_review |-> FALSE]]

\* the rest of a call: candidates, catalog, thresholds, groups and stage events
Contexts ==
    LET clean == ListV(<<GroupInput("GA", "pack_together", ListV(<<0, 1>>), NumV(95), FALSE)>>)
        flagged == ListV(<<GroupInput("GA", "separate", ListV(<<0, 1>>), NumV(95), TRUE)>>)
        none == ListV(<<>>)
        ev == ListV(<<Event("llm_stage_note", "m", 0, {"llm_stage_note"})>>)
        C(layout, catalog, thr, groups, events) ==
            [layout |-> layout, catalog |-> catalog, thresholds |-> thr,
             groups |-> groups, events |-> events]
    IN  {C("per_line", MappingCatalog, DefaultThresholds, none, none),
         C("per_line", MappingCatalog, DefaultThresholds, clean, ev),
         C("per_line", MappingCatalog, DefaultThresholds, flagged, none),
         C("per_line", MappingCatalog, RelaxedThresholds, clean, none),
         C("per_line", NoCatalog, DefaultThresholds, none, none),
         C("empty", NoCatalog, DefaultThresholds, none, ev),
         C("uncatalogued", MappingCatalog, DefaultThresholds, none, none),
         C("uncatalogued", NoCatalog, DefaultThresholds, clean, none),
         C("nocode", MappingCatalog, DefaultThresholds, none, none)}

NoResult == <<>>

\* llm_client is None
NoClient == [kind |-> "none", accepts |-> {}]

\* llm_normalize_and_group is not running
NoStage == <<>>

\* ------------------------------------------- merge_and_validate, called directly

Init ==
    /\ pc = "ready"
    /\ order_raw \in OrderInputs
    /\ \E c \in Contexts :
          /\ candidates = CandidatesFor(order_raw, c.layout)
          /\ menu_catalog = c.catalog
          /\ thresholds = c.thresholds
          /\ \E items \in ItemListInputs(order_raw) :
                structured = [items |-> ListV(items), groups |-> c.groups,
                              audit_events |-> c.events, metadata |-> NoMetadata]
    /\ merged = NoResult
    /\ llm_client = NoClient /\ prompt_ok = TRUE /\ stage = NoStage /\ client_log = <<>>
    /\ LibraryIdle

Merge ==
    /\ pc = "ready"
    /\ merged' = merge_and_validate(order_raw, candidates, structured, menu_catalog, thresholds)
    /\ pc' = "merged"
    /\ UNCHANGED <<order_raw, candidates, menu_catalog, thresholds, structured>>
    /\ UNCHANGED call_vars
    /\ UNCHANGED lib_vars

Next == Merge

Spec == Init /\ [][Next]_vars

\* ------------------------------- merge_and_validate over lists of input groups

MaxGroups == 2
MaxGroupLen == 2

\* 0 and 1 are parser lines, 2 is the position of the noise line
GroupIndexInputs == {0, 1, 2}

GroupsOrder ==
    [lines |-> [k \in 1..MaxLines |-> RawLine(LineIndexAt(k), FALSE)],
     needs_review |-> FALSE]

LineIndicesInputs == {ListV(l) : l \in SeqsUpTo(GroupIndexInputs, MaxGroupLen)} \cup {NotAList}

GroupListInputs ==
    SeqsUpTo({GroupInput(None, "pack_together", l, NumV(95), FALSE) : l \in LineIndicesInputs},
             MaxGroups)

InitGroups ==
    /\ pc = "ready"
    /\ order_raw = GroupsOrder
    /\ candidates = CandidatesFor(order_raw, "per_line")
    /\ menu_catalog = MappingCatalog
    /\ thresholds = DefaultThresholds
    /\ \E groups \in GroupListInputs :
          structured = [items |-> ListV([k \in 1..Len(order_raw.lines) |->
                                            GoodItem(order_raw.lines[k].line_index)]),
                        groups |-> ListV(groups),
                        audit_events |-> ListV(<<>>), metadata |-> NoMetadata]
    /\ merged = NoResult
    /\ llm_client = NoClient /\ prompt_ok = TRUE /\ stage = NoStage /\ client_log = <<>>
    /\ LibraryIdle

SpecGroups == InitGroups /\ [][Next]_vars

\* --------------------------------------------------- llm_normalize_and_group

\* The text of a line is modelled by the token its note carries: a substring test
\* on the line text is a test on that token.
_GROUP_KEYWORDS == {"same_bag", "above2_same_bag"}

_AUDIT_REASON_MAP ==
    [llm_client_missing |-> "fallback_llm_client_missing",
     llm_timeout |-> "fallback_llm_timeout",
     llm_api_error |-> "fallback_llm_api_error",
     llm_json_parse_error |-> "fallback_llm_json_parse_error",
     item_id_out_of_candidates |-> "item_id_out_of_scope",
     missing_item_id |-> "item_id_missing",
     mods_out_of_allowed |-> "mods_out_of_scope",
     invalid_mods_payload |-> "mods_payload_invalid",
     group_line_indices_out_of_scope |-> "group_line_indices_out_of_scope",
     group_type_out_of_allowed |-> "group_type_out_of_scope"]

\* s[:1]
FirstOf(s) == IF s = <<>> THEN <<>> ELSE <<s[1]>>

PList(s) == [shape |-> "list", elems |-> s]
PNone == [shape |-> "none", elems |-> <<>>]
PBad == [shape |-> "other", elems |-> <<>>]

\* the elements of a finite set of integers, ascending
RECURSIVE SortedSeq(_)
SortedSeq(S) ==
    IF S = {} THEN <<>>
    ELSE LET least == CHOOSE x \in S : \A y \in S : x <= y
         IN  <<least>> \o SortedSeq(S \ {least})

\* the non-blank entries of a list of strings, first occurrence only
RECURSIVE _unique_tokens(_)
_unique_tokens(values) ==
    IF values = <<>> THEN <<>>
    ELSE LET n == Len(values)
             before == _unique_tokens(SubSeq(values, 1, n - 1))
             token == Strip(values[n])
         IN  IF token = "" \/ token = None \/ token \in Range(before) THEN before
             ELSE Append(before, token)

\* the audit event of the LLM stage: the event type is always its first tag
_audit_llm(event_type, line_index, tags) ==
    AuditEvent(event_type, "llm", line_index, None, {event_type} \cup tags)

_safe_confidence(value, default) ==
    IF value.k \notin {"int", "num"} THEN default
    ELSE IF value.v < 0 THEN 0
    ELSE IF value.v > 100 THEN 100
    ELSE value.v

LineText(line) == line.note_raw

_rule_mods_from_line(line_text, mods_allowed) ==
    _unique_tokens(SelectSeq(mods_allowed, LAMBDA mod : mod # "" /\ mod = line_text))

_resolve_reference_indices(line_positions, current_pos, text) ==
    LET previous == SubSeq(line_positions, 1, current_pos - 1)
    IN  IF text = "above2_same_bag" /\ previous # <<>>
        THEN SubSeq(previous, IF Len(previous) > 2 THEN Len(previous) - 1 ELSE 1, Len(previous))
        ELSE IF text \in {"same_bag", "above2_same_bag"} /\ previous # <<>>
        THEN <<previous[Len(previous)], line_positions[current_pos]>>
        ELSE <<>>

_build_step1_group_hints(raw) ==
    LET line_positions == [k \in 1..Len(raw.lines) |-> raw.lines[k].line_index]
        hinting == {k \in 1..Len(raw.lines) : LineText(raw.lines[k]) \in _GROUP_KEYWORDS}
        Hint(k) == [trigger_line_index |-> raw.lines[k].line_index,
                    candidate_group_note |-> raw.lines[k].note_raw,
                    referenced_line_indices |->
                        _resolve_reference_indices(line_positions, k, LineText(raw.lines[k]))]
        order == SortedSeq(hinting)
    IN  [i \in 1..Len(order) |-> Hint(order[i])]

StageGroup(group_id, type, indices, confidence, needs_review, source, reasons) ==
    [group_id |-> group_id, type |-> type, line_indices |-> ListV(indices),
     confidence_group |-> NumV(confidence), needs_review |-> needs_review,
     metadata |-> [source |-> source, review_reasons |-> reasons, review_tags |-> reasons]]

\* no backstop: the hints give no group
NoRuleGroups(hints, mark_review, source) == <<>>

RECURSIVE _build_rule_groups(_, _, _)
_build_rule_groups(hints, mark_review, source) ==
    IF hints = <<>> THEN <<>>
    ELSE LET n == Len(hints)
             groups == _build_rule_groups(SubSeq(hints, 1, n - 1), mark_review, source)
             normalized == SortedSeq(Range(hints[n].referenced_line_indices))
             seen == {groups[i].line_indices.elems : i \in 1..Len(groups)}
         IN  IF Len(normalized) < 2 \/ normalized \in seen THEN groups
             ELSE Append(groups,
                     StageGroup("G" \o ToString(Len(groups) + 1), "pack_together", normalized,
                                35, mark_review, source,
                                IF mark_review THEN <<"rule_group_backstop">> ELSE <<>>))

_build_item_id(candidate, slot) ==
    IF candidate.candidate_code # None /\ candidate.candidate_code # ""
    THEN candidate.candidate_code
    ELSE IF candidate.candidate_name # None /\ candidate.candidate_name # ""
    THEN candidate.candidate_name
    ELSE "candidate_" \o ToString(slot + 1)

\* the item_id offered for each candidate slot of a line (slots count from 1)
RECURSIVE OfferedItemIds(_)
OfferedItemIds(line_candidates) ==
    IF line_candidates = <<>> THEN <<>>
    ELSE LET n == Len(line_candidates)
             before == OfferedItemIds(SubSeq(line_candidates, 1, n - 1))
             item_id == _build_item_id(line_candidates[n], n - 1)
         IN  Append(before, IF item_id \in Range(before)
                             THEN item_id \o "#" \o ToString(n) ELSE item_id)

\* lookup_for_line.get(selected_id): the slot last stored under the id, 0 for None
LookupSlot(line_candidates, selected_id) ==
    LET ids == OfferedItemIds(line_candidates)
        slots == {k \in 1..Len(ids) : ids[k] = selected_id}
    IN  IF slots = {} THEN 0 ELSE CHOOSE k \in slots : \A j \in slots : j <= k

CandidatesGet(cands, line_index) ==
    IF line_index \in DOMAIN cands THEN cands[line_index] ELSE <<>>

StageMod(token, confidence, needs_review) == ObjMod(token, token, NumV(confidence), needs_review)

StageItem(line, selected, mods, confidence_item, confidence_mods, needs_review, metadata) ==
    [line_index |-> IntV(line.line_index), raw_line |-> line.raw_line,
     name_raw |-> line.name_raw, qty |-> IntV(line.qty),
     name_normalized |-> IF selected = <<>> THEN line.name_raw ELSE selected[1].candidate_name,
     item_code |-> IF selected = <<>> THEN None ELSE selected[1].candidate_code,
     item_id |-> None, note_raw |-> line.note_raw, mods |-> ListV(mods),
     confidence_item |-> NumV(confidence_item), confidence_mods |-> NumV(confidence_mods),
     needs_review |-> needs_review, metadata |-> metadata]

\* [items, events]: one fallback item per parser line
_build_fallback_items(raw, cands, mods_allowed, force_review, fallback_reason) ==
    LET Selected(line) == FirstOf(CandidatesGet(cands, line.line_index))
        Reasons(line) ==
            Cond(force_review, <<"llm_fallback">>)
            \o Cond(force_review /\ fallback_reason # None, <<"fallback:" \o fallback_reason>>)
            \o Cond(Selected(line) = <<>>, <<"missing_candidates">>)
        Tags(line) ==
            Cond(force_review, <<"llm_fallback">>)
            \o Cond(force_review /\ fallback_reason # None, <<fallback_reason>>)
            \o Cond(Selected(line) = <<>>, <<"missing_candidates">>)
        Mods(line) ==
            LET tokens == _rule_mods_from_line(LineText(line), mods_allowed)
            IN  [i \in 1..Len(tokens) |-> StageMod(tokens[i], 35, force_review)]
        Item(line) ==
            StageItem(line, Selected(line), Mods(line), 0, 0,
                      IF force_review THEN TRUE ELSE line.needs_review,
                      [selection_source |-> "fallback_first_candidate",
                       review_reasons |-> _unique_tokens(Reasons(line)),
                       review_tags |-> _unique_tokens(Tags(line))])
        Events(k) == Cond(Selected(raw.lines[k]) = <<>>,
                          <<_audit_llm("missing_candidates", raw.lines[k].line_index, {})>>)
        RECURSIVE AllEvents(_)
        AllEvents(k) == IF k = 0 THEN <<>> ELSE AllEvents(k - 1) \o Events(k)
    IN  [items |-> [k \in 1..Len(raw.lines) |-> Item(raw.lines[k])],
         events |-> AllEvents(Len(raw.lines))]

\* by_line.get(line_index): the last payload item naming the line, <<>> for none
LineOutput(llm_items, line_index) ==
    LET hits == {k \in 1..Len(llm_items.elems) :
                    llm_items.elems[k].line_index = IntV(line_index)}
    IN  IF llm_items.shape # "list" \/ hits = {} THEN <<>>
        ELSE <<llm_items.elems[CHOOSE k \in hits : \A j \in hits : j <= k]>>

_extract_mod_tokens(raw_mods) ==
    IF raw_mods.shape # "list" THEN <<>>
    ELSE SelectSeq([i \in 1..Len(raw_mods.elems) |-> Strip(raw_mods.elems[i])],
                   LAMBDA token : token # "")

\* the body of the per-line loop of _sanitize_llm_items: [item, events]
SanitizeLine(line, line_output, line_candidates, mods_allowed) ==
    LET missing_line_output == line_output = <<>>
        out == line_output[1]
        selected_id_raw == IF missing_line_output THEN None ELSE out.item_id
        missing_item_id == ~NonBlankStr(selected_id_raw)
        selected_id == IF missing_item_id THEN None ELSE selected_id_raw
        slot == IF selected_id = None THEN 0 ELSE LookupSlot(line_candidates, selected_id)
        invalid_item_id == slot = 0 /\ selected_id # None
        selected_candidate == IF slot # 0 THEN <<line_candidates[slot]>>
                              ELSE FirstOf(line_candidates)
        raw_mods == IF missing_line_output THEN PNone ELSE out.mods
        invalid_mods_payload == raw_mods.shape = "other"
        extracted == _extract_mod_tokens(raw_mods)
        requested_mods == IF extracted = <<>>
                          THEN _rule_mods_from_line(LineText(line), mods_allowed)
                          ELSE extracted
        filtered == _unique_tokens(requested_mods)
        beyond_reference == Range(filtered) \ Range(mods_allowed) # {}
        confidence_mods ==
            _safe_confidence(IF missing_line_output THEN NoneV ELSE out.confidence_mods, 65)
        confidence_item ==
            _safe_confidence(IF missing_line_output THEN NoneV ELSE out.confidence_item, 65)
        llm_flagged == ~missing_line_output /\ out.needs_review
        line_needs_review ==
            \/ line.needs_review
            \/ invalid_item_id
            \/ llm_flagged
            \/ selected_candidate = <<>>
            \/ missing_line_output
            \/ missing_item_id
            \/ invalid_mods_payload
        line_reasons ==
            Cond(missing_line_output, <<"missing_line_item_decision">>)
            \o Cond(missing_item_id, <<"item_id_missing">>)
            \o Cond(invalid_item_id, <<"item_id_out_of_scope">>)
            \o Cond(selected_candidate = <<>>, <<"missing_candidates">>)
            \o Cond(invalid_mods_payload, <<"mods_payload_invalid">>)
            \o Cond(line.needs_review, <<"raw_line_needs_review">>)
            \o Cond(llm_flagged, <<"llm_flagged_review">>)
        li == line.line_index
    IN  [item |->
            StageItem(line, selected_candidate,
                      [i \in 1..Len(filtered) |-> StageMod(filtered[i], confidence_mods, FALSE)],
                      confidence_item, confidence_mods, line_needs_review,
                      [selected_item_id |-> selected_id, selection_source |-> "llm",
                       invalid_item_id |-> invalid_item_id,
                       review_reasons |-> _unique_tokens(line_reasons),
                       review_tags |-> _unique_tokens(line_reasons)]),
         events |->
            Cond(missing_line_output,
                 <<_audit_llm("missing_line_item_decision", li, {"review_queue"})>>)
            \o Cond(missing_item_id, <<_audit_llm("missing_item_id", li, {"review_queue"})>>)
            \o Cond(invalid_item_id,
                    <<_audit_llm("item_id_out_of_candidates", li,
                                 {"policy_violation", "review_queue"})>>)
            \o Cond(invalid_mods_payload,
                    <<_audit_llm("invalid_mods_payload", li,
                                 {"policy_violation", "review_queue"})>>)
            \o Cond(beyond_reference, <<_audit_llm("mods_beyond_reference", li, {})>>)]

\* [items, events]: one sanitized item per parser line
_sanitize_llm_items(raw, cands, mods_allowed, llm_items) ==
    LET Line(k) == SanitizeLine(raw.lines[k], LineOutput(llm_items, raw.lines[k].line_index),
                                CandidatesGet(cands, raw.lines[k].line_index), mods_allowed)
        RECURSIVE AllEvents(_)
        AllEvents(k) == IF k = 0 THEN <<>> ELSE AllEvents(k - 1) \o Line(k).events
    IN  [items |-> [k \in 1..Len(raw.lines) |-> Line(k).item],
         events |-> Cond(llm_items.shape = "other",
                         <<_audit_llm("invalid_items_payload", NoLine,
                                      {"policy_violation", "review_queue"})>>)
                    \o AllEvents(Len(raw.lines))]

GroupKey(group) == <<group.type, group.line_indices.elems>>

\* the loop of _sanitize_llm_groups over the first n entries: [groups, events]
RECURSIVE SanitizeGroups(_, _)
SanitizeGroups(raw_groups, valid_line_indices) ==
    IF raw_groups = <<>> THEN [groups |-> <<>>, events |-> <<>>]
    ELSE LET n == Len(raw_groups)
             before == SanitizeGroups(SubSeq(raw_groups, 1, n - 1), valid_line_indices)
             raw == raw_groups[n]
             raw_indices == raw.line_indices.elems
             violating == \E i \in 1..Len(raw_indices) :
                              raw_indices[i] = NotAnInt \/ raw_indices[i] \notin valid_line_indices
             indices == SortedSeq({x \in Range(raw_indices) :
                                      x # NotAnInt /\ x \in valid_line_indices})
             type_invalid == raw.type \notin _VALID_GROUP_TYPES
             group_type == IF type_invalid THEN "other" ELSE raw.type
             needs_review == raw.needs_review \/ violating \/ type_invalid
             review_reasons ==
                 Cond(violating, <<"group_line_indices_out_of_scope">>)
                 \o Cond(type_invalid, <<"group_type_out_of_scope">>)
                 \o Cond(raw.needs_review, <<"llm_flagged_review">>)
             seen == {GroupKey(before.groups[i]) : i \in 1..Len(before.groups)}
             policy == {"policy_violation", "review_queue"}
             out_of_scope == Cond(violating,
                 <<_audit_llm("group_line_indices_out_of_scope", NoLine, policy)>>)
             type_event == Cond(type_invalid,
                 <<_audit_llm("group_type_out_of_allowed", NoLine, policy)>>)
         IN  IF raw.line_indices.shape # "list"
             THEN [groups |-> before.groups,
                   events |-> Append(before.events,
                       _audit_llm("invalid_group_line_indices_payload", NoLine, policy))]
             ELSE IF Len(indices) < 2
             THEN [groups |-> before.groups,
                   events |-> before.events \o out_of_scope
                       \o <<_audit_llm("group_line_indices_insufficient", NoLine, policy)>>]
             ELSE IF <<group_type, indices>> \in seen
             THEN [groups |-> before.groups,
                   events |-> before.events \o out_of_scope \o type_event
                       \o <<_audit_llm("duplicate_group", NoLine, {"review_queue"})>>]
             ELSE [groups |-> Append(before.groups,
                       StageGroup(IF raw.group_id # None /\ raw.group_id # ""
                                  THEN raw.group_id
                                  ELSE "G" \o ToString(Len(before.groups) + 1),
                                  group_type, indices,
                                  _safe_confidence(raw.confidence_group, 70),
                                  needs_review, "llm", _unique_tokens(review_reasons))),
                   events |-> before.events \o out_of_scope \o type_event]

_sanitize_llm_groups(raw_groups, valid_line_indices) ==
    IF raw_groups.shape = "none" THEN [groups |-> <<>>, events |-> <<>>]
    ELSE IF raw_groups.shape # "list"
    THEN [groups |-> <<>>,
          events |-> <<_audit_llm("invalid_groups_payload", NoLine,
                                  {"policy_violation", "review_queue"})>>]
    ELSE LET done == SanitizeGroups(raw_groups.elems, valid_line_indices)
         IN  [groups |-> done.groups,
              events |-> done.events
                  \o Cond(raw_groups.elems # <<>> /\ done.groups = <<>>,
                          <<_audit_llm("invalid_groups", NoLine, {"review_queue"})>>)]

_collect_review_queue_metadata(items, groups, events, fallback_reason) ==
    LET flagged_items == {i \in 1..Len(items) : items[i].needs_review}
        flagged_groups == {i \in 1..Len(groups) : groups[i].needs_review}
        mapped == {i \in 1..Len(events) : events[i].event_type \in DOMAIN _AUDIT_REASON_MAP}
        \* the tags beside the event type, which _audit always puts first
        queued == {i \in 1..Len(events) :
                      events[i].tags \cap {"policy_violation", "review_queue"} # {}}
    IN  [needs_review |-> \/ fallback_reason # None
                          \/ flagged_items # {} \/ flagged_groups # {}
                          \/ mapped # {} \/ queued # {},
         reasons |-> (IF fallback_reason # None THEN {"fallback:" \o fallback_reason} ELSE {})
                     \cup UNION {Range(items[i].metadata.review_reasons) : i \in flagged_items}
                     \cup UNION {Range(groups[i].metadata.review_reasons) : i \in flagged_groups}
                     \cup {_AUDIT_REASON_MAP[events[i].event_type] : i \in mapped},
         audit_tags |-> UNION {Range(items[i].metadata.review_tags) : i \in flagged_items}
                        \cup UNION {Range(groups[i].metadata.review_tags) : i \in flagged_groups}
                        \cup UNION {events[i].tags : i \in 1..Len(events)}]

\* ------------------------------------------ the client and the attempt loop

Exc(cls, msg_timeout) == [cls |-> cls, msg_timeout |-> msg_timeout]

\* "timeout" in the lowered class name, or a timeout keyword in the message
_is_timeout_like_error(exc) ==
    exc.cls \in {"TimeoutError", "ReadTimeout"} \/ exc.msg_timeout

\* the reason chosen by the except clauses around _invoke_llm
ReasonOfException(exc) ==
    IF exc.cls = "TimeoutError" THEN "llm_timeout"
    ELSE IF _is_timeout_like_error(exc) THEN "llm_timeout"
    ELSE "llm_api_error"

\* has complete, has invoke, or is callable
Usable(client) == client.kind \in {"complete", "invoke", "callable"}

\* the four call forms of _call_with_optional_timeout, in the order tried:
\* fn(prompt=, timeout_s=), fn(prompt, timeout_s=), fn(prompt=), fn(prompt)
CallForms == 1..4

\* the forms Python can bind to the signature of the client's callable
SignatureInputs ==
    {{1, 2, 3, 4},   \* def complete(self, prompt, timeout_s=None)
     {3, 4},         \* def complete(self, prompt)
     {4},            \* def complete(self, text)
     {}}             \* def complete(self)

ClientInputs ==
    {NoClient, [kind |-> "unusable", accepts |-> {}]}
    \cup {[kind |-> "complete", accepts |-> a] : a \in SignatureInputs}
AllowedModsInput == <<"spicy">>

\* ------------------------------------------------------- what the LLM can answer

ItemOutput(line_index, item_id, mods, confidence, needs_review) ==
    [line_index |-> line_index, item_id |-> item_id, mods |-> mods,
     confidence_item |-> confidence, confidence_mods |-> confidence,
     needs_review |-> needs_review]

GroupOutput(group_id, type, line_indices, confidence, needs_review) ==
    [group_id |-> group_id, type |-> type, line_indices |-> line_indices,
     confidence_group |-> confidence, needs_review |-> needs_review]

\* the decision a well-behaved LLM returns for the k-th line: its first offered item_id
GoodOutput(raw, cands, k) ==
    LET li == raw.lines[k].line_index
        ids == OfferedItemIds(CandidatesGet(cands, li))
    IN  ItemOutput(IntV(li), IF ids = <<>> THEN None ELSE ids[1], PNone, NumV(95), FALSE)

ResponseInputs(raw, cands) ==
    LET n == Len(raw.lines)
        good == [k \in 1..n |-> GoodOutput(raw, cands, k)]
        pair == PList(<<0, 1>>)
        deviant == IF n = 0 THEN good
                   ELSE [good EXCEPT ![n] =
                            ItemOutput(@.line_index, "X999", PBad, OtherV, TRUE)]
        modded == IF n = 0 THEN good
                  ELSE [good EXCEPT ![1] =
                           ItemOutput(@.line_index, @.item_id,
                                      PList(<<"spicy", " ", "extra", "spicy">>), NumV(80), FALSE)]
        R(items, groups) == [items |-> items, groups |-> groups]
    IN  {R(PList(good), PNone),
         R(PNone, PNone),
         R(PBad, PBad),
         R(PList(deviant), PList(<<>>)),
         R(PList(modded \o FirstOf(good)),
           PList(<<GroupOutput(None, "pack_together", pair, NumV(95), FALSE)>>)),
         R(PList(good),
           PList(<<GroupOutput("GX", "weird", PList(<<1, 0, SkippedLineIndex>>), NoneV, FALSE),
                   GroupOutput(None, "other", PList(<<1, 0>>), NumV(95), TRUE),
                   GroupOutput(None, "separate", PBad, NumV(95), FALSE)>>)),
         R(PList(good),
           PList(<<GroupOutput(None, "separate", PList(<<0, NotAnInt>>), NumV(95), FALSE)>>))}

\* what one execution of the client's callable does
ClientOutcomes(raw, cands) ==
    {[does |-> "returns", text |-> "object", response |-> <<r>>, exc |-> <<>>] :
        r \in ResponseInputs(raw, cands)}
    \cup {[does |-> "returns", text |-> t, response |-> <<>>, exc |-> <<>>] :
            t \in {"garbage", "unserialisable"}}
    \cup {[does |-> "raises", text |-> None, response |-> <<>>, exc |-> <<e>>] :
            e \in {Exc("TimeoutError", FALSE), Exc("ReadTimeout", FALSE),
                   Exc("RuntimeError", TRUE), Exc("RuntimeError", FALSE),
                   Exc("TypeError", FALSE)}}

\* -------------------------------------------------------------------- actions

\* llm_normalize_and_group up to the first call of the client
EnterStage ==
    /\ pc = "stage"
    /\ LET begun == [llm_attempts |-> 0, form |-> 0, fallback_reason |-> None,
                     parsed_response |-> <<>>, audit_events |-> <<>>]
       IN  IF llm_client.kind = "none"
           THEN /\ stage' = [begun EXCEPT
                                !.fallback_reason = "llm_client_missing",
                                !.audit_events = <<_audit_llm("llm_client_missing", NoLine,
                                                              {"review_queue"})>>]
                /\ pc' = "build"
           ELSE IF ~prompt_ok
           THEN /\ stage' = [begun EXCEPT
                                !.fallback_reason = "prompt_load_error",
                                !.audit_events = <<_audit_llm("prompt_load_error", NoLine, {})>>]
                /\ pc' = "build"
           ELSE /\ stage' = [begun EXCEPT !.llm_attempts = 1, !.form = 1]
                /\ pc' = "attempt"
    /\ UNCHANGED <<order_raw, candidates, menu_catalog, thresholds, structured, merged,
                   llm_client, prompt_ok, client_log>>
    /\ UNCHANGED lib_vars

\* an exception reaches the except clauses of the attempt loop: the loop breaks
ExceptionEndsLoop(exc) ==
    /\ stage' = [stage EXCEPT
                    !.fallback_reason = ReasonOfException(exc),
                    !.audit_events = Append(@, _audit_llm(ReasonOfException(exc), NoLine, {}))]
    /\ pc' = "build"

\* _call_with_optional_timeout catches a TypeError: the next form is tried, and after
\* the last form the TypeError is raised to the attempt loop
TypeErrorCaught(exc) ==
    IF stage.form < 4
    THEN /\ stage' = [stage EXCEPT !.form = @ + 1]
         /\ pc' = "attempt"
    ELSE ExceptionEndsLoop(exc)

ParseFailedNeverRetries ==
    /\ stage' = [stage EXCEPT
                    !.fallback_reason = "llm_json_parse_error",
                    !.audit_events = Append(@, _audit_llm("llm_json_parse_error", NoLine, {}))]
    /\ pc' = "build"

\* _extract_json_payload raised
ParseFailed ==
    IF stage.llm_attempts = 1
    THEN /\ stage' = [stage EXCEPT
                         !.llm_attempts = 2, !.form = 1,
                         !.audit_events = Append(@, _audit_llm("llm_json_parse_retry", NoLine, {}))]
         /\ pc' = "attempt"
    ELSE /\ stage' = [stage EXCEPT
                         !.fallback_reason = "llm_json_parse_error",
                         !.audit_events = Append(@, _audit_llm("llm_json_parse_error", NoLine, {}))]
         /\ pc' = "build"

\* _invoke_llm finds no complete, no invoke and no callable
ClientUnusable ==
    /\ pc = "attempt"
    /\ ~Usable(llm_client)
    /\ ExceptionEndsLoop(Exc("TypeError", FALSE))
    /\ UNCHANGED <<order_raw, candidates, menu_catalog, thresholds, structured, merged,
                   llm_client, prompt_ok, client_log>>
    /\ UNCHANGED lib_vars

\* the current call form does not bind to the callable's signature: Python raises
\* TypeError before the callable runs (its message may name timeout_s)
CallRejected ==
    /\ pc = "attempt"
    /\ Usable(llm_client)
    /\ stage.form \notin llm_client.accepts
    /\ \E names_timeout \in BOOLEAN :
          /\ stage.form < 4 => ~names_timeout
          /\ TypeErrorCaught(Exc("TypeError", names_timeout))
    /\ UNCHANGED <<order_raw, candidates, menu_catalog, thresholds, structured, merged,
                   llm_client, prompt_ok, client_log>>
    /\ UNCHANGED lib_vars

\* the current call form binds: the callable runs once and returns or raises
CallExecuted ==
    /\ pc = "attempt"
    /\ Usable(llm_client)
    /\ stage.form \in llm_client.accepts
    /\ \E outcome \in ClientOutcomes(order_raw, candidates) :
          /\ client_log' = Append(client_log,
                                  [attempt |-> stage.llm_attempts, form |-> stage.form,
                                   does |-> outcome.does, text |-> outcome.text,
                                   exc |-> outcome.exc])
          /\ IF outcome.does = "raises"
             THEN IF outcome.exc[1].cls = "TypeError"
                  THEN TypeErrorCaught(outcome.exc[1])
                  ELSE ExceptionEndsLoop(outcome.exc[1])
             ELSE IF outcome.text = "unserialisable"
             THEN TypeErrorCaught(Exc("TypeError", FALSE))
             ELSE IF outcome.text = "garbage"
             THEN ParseFailed
             ELSE /\ stage' = [stage EXCEPT !.parsed_response = outcome.response]
                  /\ pc' = "build"
    /\ UNCHANGED <<order_raw, candidates, menu_catalog, thresholds, structured, merged,
                   llm_client, prompt_ok>>
    /\ UNCHANGED lib_vars

\* the StructuredResult returned by llm_normalize_and_group
BuiltStructured(raw, cands, mods_allowed, locals) ==
    LET step1_hints == _build_step1_group_hints(raw)
        fallen == locals.parsed_response = <<>>
        response == locals.parsed_response[1]
        fallback == _build_fallback_items(raw, cands, mods_allowed, TRUE,
                                          locals.fallback_reason)
        sane_items == _sanitize_llm_items(raw, cands, mods_allowed, response.items)
        sane_groups == _sanitize_llm_groups(response.groups, LineIndices(raw))
        rule_backstop == _build_rule_groups(step1_hints, TRUE, "rule_backstop")
        known == {GroupKey(sane_groups.groups[i]) : i \in 1..Len(sane_groups.groups)}
        items == IF fallen THEN fallback.items ELSE sane_items.items
        groups == IF fallen THEN _build_rule_groups(step1_hints, TRUE, "fallback_rule")
                  ELSE sane_groups.groups
                       \o SelectSeq(rule_backstop, LAMBDA g : GroupKey(g) \notin known)
        audit_events == locals.audit_events
                        \o (IF fallen THEN fallback.events
                            ELSE sane_items.events \o sane_groups.events)
    IN  [items |-> ListV(items), groups |-> ListV(groups),
         audit_events |-> ListV(audit_events),
         metadata |-> [llm_attempts |-> locals.llm_attempts,
                       fallback_reason |-> locals.fallback_reason,
                       step1_hint_count |-> Len(step1_hints),
                       review_queue |-> _collect_review_queue_metadata(
                           items, groups, audit_events, locals.fallback_reason)]]

\* llm_normalize_and_group after the attempt loop
BuildStructured ==
    /\ pc = "build"
    /\ structured' = BuiltStructured(order_raw, candidates, AllowedModsInput, stage)
    /\ pc' = "ready"
    /\ UNCHANGED <<order_raw, candidates, menu_catalog, thresholds, merged>>
    /\ UNCHANGED call_vars
    /\ UNCHANGED lib_vars

\* ---------------------- llm_normalize_and_group followed by merge_and_validate

NoteInputs == {"same_bag", "above2_same_bag", "spicy"}

\* parser results whose last line carries a grouping or a modifier note
NotedOrderInputs ==
    {[o EXCEPT !.lines[Len(o.lines)].note_raw = note] :
        o \in {x \in OrderInputs : x.lines # <<>>}, note \in NoteInputs}

StageContexts ==
    {[layout |-> "per_line", client |-> c, prompt_ok |-> TRUE] : c \in ClientInputs}
    \cup {[layout |-> "per_line", client |-> [kind |-> "complete", accepts |-> {3, 4}],
           prompt_ok |-> FALSE],
          [layout |-> "empty", client |-> [kind |-> "invoke", accepts |-> {1, 2, 3, 4}],
           prompt_ok |-> TRUE],
          [layout |-> "nocode", client |-> NoClient, prompt_ok |-> TRUE],
          [layout |-> "nocode", client |-> [kind |-> "callable", accepts |-> {3, 4}],
           prompt_ok |-> TRUE]}

NoStructured == <<>>

InitLLM ==
    /\ pc = "stage"
    /\ order_raw \in OrderInputs \cup NotedOrderInputs
    /\ \E c \in StageContexts :
          /\ candidates = CandidatesFor(order_raw, c.layout)
          /\ llm_client = c.client
          /\ prompt_ok = c.prompt_ok
    /\ menu_catalog = MappingCatalog
    /\ thresholds = DefaultThresholds
    /\ structured = NoStructured
    /\ merged = NoResult
    /\ stage = NoStage
    /\ client_log = <<>>
    /\ LibraryIdle

NextLLM ==
    \/ EnterStage
    \/ ClientUnusable
    \/ CallRejected
    \/ CallExecuted
    \/ BuildStructured
    \/ Merge

SpecLLM == InitLLM /\ [][NextLLM]_vars

\* ------------------------------------------------------------------ properties

InputGroups == structured.groups.elems

\* position of the first input group whose line_indices list names line_index
FirstListing(line_index) ==
    LET listing == {k \in 1..Len(InputGroups) :
                       /\ InputGroups[k].line_indices.is_list
                       /\ line_index \in Range(InputGroups[k].line_indices.elems)}
    IN  IF listing = {} THEN 0 ELSE CHOOSE k \in listing : \A j \in listing : k <= j

\* C1: after merge_and_validate no line_index is in two result groups, and a parser
\* line_index that input groups list belongs to the earliest input group listing it.
C1_FirstGroupOwnsLine ==
    pc = "merged" =>
        /\ \A i, j \in 1..Len(merged.groups) :
              i # j => Range(merged.groups[i].line_indices)
                          \cap Range(merged.groups[j].line_indices) = {}
        /\ \A j \in 1..Len(merged.groups) :
              \A x \in Range(merged.groups[j].line_indices) : FirstListing(x) = j
        /\ \A x \in LineIndices(order_raw) :
              FirstListing(x) # 0 =>
                  x \in Range(merged.groups[FirstListing(x)].line_indices)

C1_Witness ==
    /\ pc = "merged"
    /\ Len(InputGroups) = 2
    /\ InputGroups[1].line_indices = ListV(<<1, 0>>)
    /\ InputGroups[2].line_indices = ListV(<<0, 1>>)
    /\ merged.groups[1].line_indices = <<1, 0>>
    /\ merged.groups[2].line_indices = <<>>

CandidatesOfLine(line_index) ==
    IF line_index \in DOMAIN candidates THEN candidates[line_index] ELSE <<>>

\* C2: every result item has item_code null, or an item_code that is both a catalog
\* item id and the candidate_code of a candidate of the item's own line.
C2_ItemCodeFromCatalogAndLine ==
    pc = "merged" =>
        \A i \in 1..Len(merged.items) :
            LET item == merged.items[i]
                line_candidates == CandidatesOfLine(item.line_index)
            IN  \/ item.item_code = None
                \/ /\ item.item_code \in _catalog_ids(menu_catalog, candidates)
                   /\ \E j \in 1..Len(line_candidates) :
                         line_candidates[j].candidate_code = item.item_code

\* the LLM proposed a catalog code of another line; the line's top candidate replaced it
C2_Witness ==
    /\ pc = "merged"
    /\ \E i \in 1..Len(merged.items) :
          /\ merged.items[i].metadata.fallback_reason = "item_code_not_in_line_candidates"
          /\ merged.items[i].item_code = CandidatesOfLine(merged.items[i].line_index)[1].candidate_code
          /\ \E k \in 1..Len(structured.items.elems) :
                /\ structured.items.elems[k].line_index = IntV(merged.items[i].line_index)
                /\ structured.items.elems[k].item_code \in menu_catalog.ids
                /\ structured.items.elems[k].item_code # merged.items[i].item_code

\* C3: overall_needs_review is true exactly when the parsed order, some result item
\* or some result group has needs_review set.
C3_OverallIsOrOfFlags ==
    pc = "merged" =>
        (merged.overall_needs_review <=>
            \/ order_raw.needs_review
            \/ \E i \in 1..Len(merged.items) : merged.items[i].needs_review
            \/ \E i \in 1..Len(merged.groups) : merged.groups[i].needs_review)

\* only a group carries a flag, and the order is flagged
C3_Witness ==
    /\ pc = "merged"
    /\ ~order_raw.needs_review
    /\ merged.items # <<>>
    /\ \A i \in 1..Len(merged.items) : ~merged.items[i].needs_review
    /\ \E i \in 1..Len(merged.groups) : merged.groups[i].needs_review
    /\ merged.overall_needs_review

\* C4: result.lines equals the parser's lines, and result.items has exactly one item
\* per parser line, in parser order, without a repeated line_index, whose line_index,
\* raw_line, name_raw and note_raw are the parser line's whatever the LLM sent.
C4_OneItemPerParserLine ==
    pc = "merged" =>
        /\ merged.lines = order_raw.lines
        /\ Len(merged.items) = Len(order_raw.lines)
        /\ \A i \in 1..Len(merged.items) :
              /\ merged.items[i].line_index = order_raw.lines[i].line_index
              /\ merged.items[i].raw_line = order_raw.lines[i].raw_line
              /\ merged.items[i].name_raw = order_raw.lines[i].name_raw
              /\ merged.items[i].note_raw = order_raw.lines[i].note_raw
        /\ \A i, j \in 1..Len(merged.items) :
              i # j => merged.items[i].line_index # merged.items[j].line_index

\* two parser lines, the second with a note; the LLM sent other raw fields, the lines
\* in reverse, and an item for a line the parser never produced
C4_Witness ==
    /\ pc = "merged"
    /\ Len(order_raw.lines) = 2
    /\ order_raw.lines[2].note_raw # None
    /\ Len(structured.items.elems) = 3
    /\ structured.items.elems[1].line_index = IntV(order_raw.lines[1].line_index)
    /\ structured.items.elems[1].raw_line # order_raw.lines[1].raw_line
    /\ structured.items.elems[3].line_index = IntV(SkippedLineIndex)
    /\ Len(merged.items) = 2

C4_ReversedWitness ==
    /\ pc = "merged"
    /\ Len(order_raw.lines) = 2
    /\ Len(structured.items.elems) = 2
    /\ structured.items.elems[1].line_index = IntV(order_raw.lines[2].line_index)
    /\ merged.items[1].line_index = order_raw.lines[1].line_index

IsSortedAscending(s) == \A i \in 1..(Len(s) - 1) : s[i] < s[i + 1]

\* position of the first occurrence of x in s
FirstPosition(s, x) == CHOOSE i \in 1..Len(s) : s[i] = x /\ \A j \in 1..(i - 1) : s[j] # x

\* C5 as stated: every result group has line_indices sorted ascending, without
\* duplicates, and with at least 2 entries.
C5_SortedAtLeastTwo ==
    pc = "merged" =>
        \A j \in 1..Len(merged.groups) :
            /\ IsSortedAscending(merged.groups[j].line_indices)
            /\ Len(merged.groups[j].line_indices) >= 2

\* C5: every result group has line_indices without duplicates, all of them parser
\* line indices, in the order of their first occurrence in the input group's list;
\* a group with fewer than 2 entries is kept and has needs_review set.
C5_InputOrderNoDuplicates ==
    pc = "merged" =>
        /\ Len(merged.groups) = Len(InputGroups)
        /\ \A j \in 1..Len(merged.groups) :
              LET final == merged.groups[j].line_indices
                  given == InputGroups[j].line_indices.elems
              IN  /\ \A a, b \in 1..Len(final) : a # b => final[a] # final[b]
                  /\ Range(final) \subseteq LineIndices(order_raw)
                  /\ Range(final) \subseteq Range(given)
                  /\ \A a, b \in 1..Len(final) :
                        a < b => FirstPosition(given, final[a]) < FirstPosition(given, final[b])
                  /\ Len(final) < 2 => merged.groups[j].needs_review

\* a group that is not ascending next to a group with one entry
C5_Witness ==
    /\ pc = "merged"
    /\ Len(merged.groups) = 2
    /\ merged.groups[1].line_indices = <<1, 0>>
    /\ InputGroups[1].line_indices = ListV(<<1, 0>>)
    /\ InputGroups[2].line_indices = ListV(<<2, 1>>)
    /\ merged.groups[2].line_indices = <<>>

C5_DuplicateWitness ==
    /\ pc = "merged"
    /\ \E j \in 1..Len(merged.groups) :
          /\ InputGroups[j].line_indices = ListV(<<1, 1>>)
          /\ merged.groups[j].line_indices = <<1>>

TooFewEvents(group_id) ==
    {k \in 1..Len(merged.audit_events) :
        /\ merged.audit_events[k].event_type = "group_too_few_lines"
        /\ merged.audit_events[k].group_id = group_id}

\* C6: a group left with fewer than 2 line indices is not dropped: it stays at its
\* input position with the line indices that remain, has needs_review set, and a
\* group_too_few_lines audit event is emitted for it.
C6_TooFewGroupKeptAndFlagged ==
    pc = "merged" =>
        /\ Len(merged.groups) = Len(InputGroups)
        /\ \A j \in 1..Len(merged.groups) :
              LET group == merged.groups[j]
                  earlier == UNION {Range(merged.groups[i].line_indices) : i \in 1..(j - 1)}
                  remaining == {x \in Range(InputGroups[j].line_indices.elems) :
                                   x \in LineIndices(order_raw) /\ x \notin earlier}
              IN  /\ group.group_id = "G" \o ToString(j)
                  /\ Range(group.line_indices) = remaining
                  /\ Len(group.line_indices) < 2 =>
                        /\ group.needs_review
                        /\ Cardinality(TooFewEvents(group.group_id)) = 1
                  /\ Len(group.line_indices) >= 2 => TooFewEvents(group.group_id) = {}

\* the only defect of the group is that one line index is left
C6_Witness ==
    /\ pc = "merged"
    /\ Len(InputGroups) = 2
    /\ InputGroups[1].line_indices = ListV(<<0>>)
    /\ merged.groups[1].line_indices = <<0>>
    /\ merged.groups[1].needs_review
    /\ InputGroups[2].line_indices = NotAList
    /\ merged.groups[2].line_indices = <<>>
    /\ merged.groups[2].needs_review

DispatchDecision == merged.metadata.dispatch_decision

\* C7: the route is review-queue exactly when overall_needs_review is true or a
\* reason applies (order, item or group flag, null item_code, qty below 1), and
\* auto-dispatch otherwise; should_auto_dispatch is true exactly on auto-dispatch.
C7_RouteFollowsReasons ==
    pc = "merged" =>
        LET reason_applies ==
                \/ order_raw.needs_review
                \/ \E i \in 1..Len(merged.items) :
                      \/ merged.items[i].needs_review
                      \/ merged.items[i].item_code = None
                      \/ merged.items[i].qty <= 0
                \/ \E i \in 1..Len(merged.groups) : merged.groups[i].needs_review
        IN  /\ DispatchDecision.route \in {_ROUTE_AUTO_DISPATCH, _ROUTE_REVIEW_QUEUE}
            /\ DispatchDecision.route = _ROUTE_REVIEW_QUEUE
                  <=> (merged.overall_needs_review \/ reason_applies)
            /\ DispatchDecision.should_auto_dispatch
                  <=> DispatchDecision.route = _ROUTE_AUTO_DISPATCH
            /\ DispatchDecision.reasons = <<>>
                  <=> DispatchDecision.route = _ROUTE_AUTO_DISPATCH

\* no flag anywhere, yet an item without item_code sends the order to review
C7_Witness ==
    /\ pc = "merged"
    /\ ~merged.overall_needs_review
    /\ \E i \in 1..Len(merged.items) : merged.items[i].item_code = None
    /\ DispatchDecision.route = _ROUTE_REVIEW_QUEUE
    /\ ~DispatchDecision.should_auto_dispatch

C7_AutoDispatchWitness ==
    /\ pc = "merged"
    /\ Len(merged.items) = 2
    /\ merged.groups # <<>>
    /\ DispatchDecision.route = _ROUTE_AUTO_DISPATCH
    /\ DispatchDecision.should_auto_dispatch

StageReturned == pc \in {"ready", "merged"}

EventsOfType(events, event_type) ==
    {k \in 1..Len(events) : events[k].event_type = event_type}

\* C8 as stated: whenever the LLM stage fell back (metadata.fallback_reason is not
\* null), the order merge_and_validate then returns has overall_needs_review true and
\* route review-queue, and an audit event named after the fallback reason is in it.
C8_FallbackFlagsOrder ==
    (pc = "merged" /\ structured.metadata.fallback_reason # None) =>
        /\ merged.overall_needs_review
        /\ DispatchDecision.route = _ROUTE_REVIEW_QUEUE
        /\ EventsOfType(merged.audit_events, structured.metadata.fallback_reason) # {}

\* a receipt without item lines: the stage fell back and the order is auto-dispatched
C8_FallbackAutoDispatched ==
    /\ pc = "merged"
    /\ order_raw.lines = <<>>
    /\ structured.metadata.fallback_reason = "llm_timeout"
    /\ structured.metadata.review_queue.needs_review
    /\ ~merged.overall_needs_review
    /\ DispatchDecision.should_auto_dispatch

Executions(attempt) == {k \in 1..Len(client_log) : client_log[k].attempt = attempt}

ReturnedGarbage(attempt) ==
    \E k \in Executions(attempt) :
        client_log[k].does = "returns" /\ client_log[k].text = "garbage"

ReturnedObject(attempt) ==
    \E k \in Executions(attempt) :
        client_log[k].does = "returns" /\ client_log[k].text = "object"

SelectionSources ==
    {structured.items.elems[k].metadata.selection_source : k \in 1..Len(structured.items.elems)}

C9_TwiceGarbageWitness ==
    /\ pc = "ready"
    /\ order_raw.lines # <<>>
    /\ ReturnedGarbage(1)
    /\ ReturnedGarbage(2)
    /\ structured.metadata.fallback_reason = "llm_json_parse_error"
    /\ SelectionSources = {"fallback_first_candidate"}

AttemptsOver == pc \in {"build", "ready", "merged"}

\* C10 as stated: an exception raised by the client ends the attempts at once (the
\* client is not executed again), the fallback reason is llm_timeout for a
\* TimeoutError or a timeout keyword in the class name or message and llm_api_error
\* otherwise; without a client the reason is llm_client_missing and nothing is
\* called; in each case exactly one audit event carries the reason.
C10_ClientExceptionEndsAttempts ==
    /\ \A k \in 1..Len(client_log) :
          client_log[k].does = "raises" =>
              LET exc == client_log[k].exc[1]
                  reason == IF exc.cls \in {"TimeoutError", "ReadTimeout"} \/ exc.msg_timeout
                            THEN "llm_timeout" ELSE "llm_api_error"
              IN  /\ k = Len(client_log)
                  /\ AttemptsOver
                  /\ stage.fallback_reason = reason
                  /\ Cardinality(EventsOfType(stage.audit_events, reason)) = 1
    /\ (llm_client.kind = "none" /\ stage # NoStage) =>
          /\ client_log = <<>>
          /\ AttemptsOver
          /\ stage.fallback_reason = "llm_client_missing"
          /\ Cardinality(EventsOfType(stage.audit_events, "llm_client_missing")) = 1

\* the client raised TypeError, was executed again, and its JSON was accepted
C10_TypeErrorRetried ==
    /\ pc = "ready"
    /\ Len(client_log) = 2
    /\ client_log[1].does = "raises"
    /\ client_log[2].text = "object"
    /\ structured.metadata.fallback_reason = None
    /\ structured.metadata.llm_attempts = 1
    /\ EventsOfType(structured.audit_events.elems, "llm_api_error") = {}

\* what holds when the exception the client raises is not a TypeError
OtherExceptionsEndAttempts ==
    /\ \A k \in 1..Len(client_log) :
          (client_log[k].does = "raises" /\ client_log[k].exc[1].cls # "TypeError") =>
              LET exc == client_log[k].exc[1]
                  reason == IF exc.cls \in {"TimeoutError", "ReadTimeout"} \/ exc.msg_timeout
                            THEN "llm_timeout" ELSE "llm_api_error"
              IN  /\ k = Len(client_log)
                  /\ AttemptsOver
                  /\ stage.fallback_reason = reason
                  /\ Cardinality(EventsOfType(stage.audit_events, reason)) = 1
    /\ (llm_client.kind = "none" /\ stage # NoStage) =>
          /\ client_log = <<>>
          /\ AttemptsOver
          /\ stage.fallback_reason = "llm_client_missing"
          /\ Cardinality(EventsOfType(stage.audit_events, "llm_client_missing")) = 1

\* ------------------------------------------------------------ rule backstop

StageGroups == structured.groups.elems

\* the hints that resolve to at least 2 distinct line indices
ResolvedHints ==
    LET hints == _build_step1_group_hints(order_raw)
    IN  {k \in 1..Len(hints) : Cardinality(Range(hints[k].referenced_line_indices)) >= 2}

HintIndices(k) ==
    SortedSeq(Range(_build_step1_group_hints(order_raw)[k].referenced_line_indices))

IsRuleGroup(g, source) ==
    /\ g.type = "pack_together"
    /\ g.confidence_group = NumV(35)
    /\ g.needs_review
    /\ g.metadata.source = source
    /\ \E k \in ResolvedHints : g.line_indices.elems = HintIndices(k)

C11_KnownGroupWitness ==
    /\ pc = "ready"
    /\ ResolvedHints # {}
    /\ structured.metadata.fallback_reason = None
    /\ StageGroups # <<>>
    /\ \A i \in 1..Len(StageGroups) : StageGroups[i].metadata.source = "llm"

\* the stage fell back: the rule group is the only group
C11_FallbackWitness ==
    /\ pc = "ready"
    /\ structured.metadata.fallback_reason # None
    /\ Len(StageGroups) = 1
    /\ IsRuleGroup(StageGroups[1], "fallback_rule")

\* ------------------------------------------------- _build_candidate_context

MaxCandidates == 3

\* candidates with equal, missing and '#'-containing codes and names
CandidatePool ==
    {CandidateItem("A", "cA"), CandidateItem("A#3", "cA"), CandidateItem(None, "A"),
     CandidateItem(None, None), CandidateItem(None, "candidate_2")}

ContextOrder == CHOOSE o \in OrderInputs : Len(o.lines) = 1 /\ ~o.needs_review

\* lookup_for_line: the slot stored under each offered item_id
LookupForLine(line_candidates) ==
    [item_id \in Range(OfferedItemIds(line_candidates)) |->
        LookupSlot(line_candidates, item_id)]

_build_candidate_context(raw, cands) ==
    [item_lookup |->
        [li \in LineIndices(raw) |-> LookupForLine(CandidatesGet(cands, li))],
     payload |->
        [k \in 1..Len(raw.lines) |->
            [line_index |-> raw.lines[k].line_index,
             item_ids |-> OfferedItemIds(CandidatesGet(cands, raw.lines[k].line_index))]]]

InitContext ==
    /\ pc = "context"
    /\ order_raw = ContextOrder
    /\ \E line_candidates \in SeqsUpTo(CandidatePool, MaxCandidates) :
          candidates = [li \in LineIndices(order_raw) |-> line_candidates]
    /\ menu_catalog = MappingCatalog
    /\ thresholds = DefaultThresholds
    /\ structured = NoStructured
    /\ merged = NoResult
    /\ llm_client = NoClient
    /\ prompt_ok = TRUE
    /\ stage = NoStage
    /\ client_log = <<>>
    /\ LibraryIdle

BuildCandidateContext ==
    /\ pc = "context"
    /\ stage' = _build_candidate_context(order_raw, candidates)
    /\ pc' = "offered"
    /\ UNCHANGED <<order_raw, candidates, menu_catalog, thresholds, structured, merged,
                   llm_client, prompt_ok, client_log>>
    /\ UNCHANGED lib_vars

NextContext == BuildCandidateContext

SpecContext == InitContext /\ [][NextContext]_vars

\* C12 as stated: the item_id values offered for a line are pairwise distinct, the
\* lookup of the line has one entry per candidate, and each offered item_id is looked
\* up to its own candidate slot.
C12_OfferedItemIdsDistinct ==
    pc = "offered" =>
        \A k \in 1..Len(stage.payload) :
            LET ids == stage.payload[k].item_ids
                lookup == stage.item_lookup[stage.payload[k].line_index]
            IN  /\ \A i, j \in 1..Len(ids) : ids[i] = ids[j] => i = j
                /\ Cardinality(DOMAIN lookup) = Len(ids)
                /\ \A i \in 1..Len(ids) : lookup[ids[i]] = i

\* codes A, A#3, A: the third candidate is offered under the second's item_id
C12_SuffixCollides ==
    /\ pc = "offered"
    /\ Len(stage.payload) = 1
    /\ stage.payload[1].item_ids = <<"A", "A#3", "A#3">>
    /\ stage.item_lookup[stage.payload[1].line_index]["A#3"] = 3

\* ------------------------------------------------------------ llm_item_missing

\* the parser lines no LLM item of the structured result is kept for
LinesWithoutLlmItem ==
    {li \in LineIndices(order_raw) :
        \/ ~structured.items.is_list
        \/ \A k \in 1..Len(structured.items.elems) :
              structured.items.elems[k].line_index # IntV(li)}

MergedItemOf(line_index) ==
    merged.items[CHOOSE k \in 1..Len(merged.items) : merged.items[k].line_index = line_index]

\* C13 as stated: the merged item of a parser line without LLM item has needs_review,
\* metadata.fallback_reason = llm_item_missing, and an llm_item_missing audit event
\* for its line_index is emitted.
C13_MissingItemReason ==
    pc = "merged" =>
        \A li \in LinesWithoutLlmItem :
            /\ MergedItemOf(li).needs_review
            /\ MergedItemOf(li).metadata.fallback_reason = "llm_item_missing"
            /\ \E k \in EventsOfType(merged.audit_events, "llm_item_missing") :
                  merged.audit_events[k].line_index = li

\* what the code does for such a line: flagged, audited, merge_source fallback, and the
\* reason is the one of the field fallback that ran first
C13_MissingItemFlaggedAndAudited ==
    pc = "merged" =>
        \A li \in LinesWithoutLlmItem :
            /\ MergedItemOf(li).needs_review
            /\ MergedItemOf(li).metadata.merge_source = "fallback"
            /\ MergedItemOf(li).metadata.fallback_reason \in {"candidate_fallback", "name_from_raw"}
            /\ Cardinality({k \in EventsOfType(merged.audit_events, "llm_item_missing") :
                               merged.audit_events[k].line_index = li}) = 1

\* a line with a catalogued candidate and no LLM item: the reason is candidate_fallback
C13_CandidateFallbackWins ==
    /\ pc = "merged"
    /\ \E li \in LinesWithoutLlmItem :
          /\ CandidatesOfLine(li) # <<>>
          /\ MergedItemOf(li).metadata.fallback_reason = "candidate_fallback"
          /\ \E k \in EventsOfType(merged.audit_events, "llm_item_missing") :
                merged.audit_events[k].line_index = li

\* a line without candidates and no LLM item: the reason is name_from_raw
C13_NameFromRawWins ==
    /\ pc = "merged"
    /\ \E li \in LinesWithoutLlmItem :
          /\ CandidatesOfLine(li) = <<>>
          /\ MergedItemOf(li).metadata.fallback_reason = "name_from_raw"

\* ------------------------------------------ merge_and_validate over audit events

MaxEvents == 2

\* events as the structured stage writes them, and events with a blank event_type or
\* message, or a line_index or item_index that is not an integer
EventPool ==
    {Event("llm_timeout", "m", NoLine, {"llm_timeout", "fallback"}),
     [Event("item_id_out_of_candidates", "m", 1, {"policy_violation"}) EXCEPT !.item_index = 0],
     Event("  ", "m", 0, {}),
     Event("llm_stage_note", None, 0, {}),
     Event("llm_stage_note", "m", NotAnInt, {}),
     [Event("llm_stage_note", "m", 0, {}) EXCEPT !.item_index = NotAnInt]}

EventListInputs == {ListV(l) : l \in SeqsUpTo(EventPool, MaxEvents)} \cup {NotAList}

InitEvents ==
    /\ pc = "ready"
    /\ order_raw \in OrderInputs
    /\ candidates = CandidatesFor(order_raw, "per_line")
    /\ menu_catalog = MappingCatalog
    /\ thresholds = DefaultThresholds
    /\ \E events \in EventListInputs, with_items \in BOOLEAN :
          structured =
              [items |-> ListV(IF with_items
                               THEN [k \in 1..Len(order_raw.lines) |->
                                        GoodItem(order_raw.lines[k].line_index)]
                               ELSE <<>>),
               groups |-> ListV(<<GroupInput("GA", "weird", ListV(<<0, 1>>), NumV(95), FALSE)>>),
               audit_events |-> events, metadata |-> NoMetadata]
    /\ merged = NoResult
    /\ llm_client = NoClient /\ prompt_ok = TRUE /\ stage = NoStage /\ client_log = <<>>
    /\ LibraryIdle

SpecEvents == InitEvents /\ [][Next]_vars

StageEvents == structured.audit_events.elems

\* an event of the form the contract gives it
WellFormedEvent(e) ==
    /\ NonBlankStr(e.event_type)
    /\ NonBlankStr(e.message)
    /\ e.line_index # NotAnInt
    /\ e.item_index # NotAnInt

C14_BlankTypeWitness ==
    /\ pc = "merged"
    /\ structured.audit_events.is_list
    /\ StageEvents # <<>>
    /\ StageEvents[1].event_type = "  "
    /\ merged.audit_events[1].event_type = "merge_validate_info"

\* ------------------------------------------------------- POSNormCache._make_key

ITEM_MAPPING_CACHE == "item_mapping_cache"
NOTE_MODS_CACHE == "note_mods_cache"
GROUP_PATTERN_CACHE == "group_pattern_cache"

CACHE_NAMESPACES == {ITEM_MAPPING_CACHE, NOTE_MODS_CACHE, GROUP_PATTERN_CACHE}

_NAMESPACE_KEY_REQUIREMENTS ==
    [item_mapping_cache |-> <<"name_raw", "menu_catalog_version">>,
     note_mods_cache |-> <<"note_raw", "allowed_mods_version">>,
     group_pattern_cache |-> <<"group_pattern", "menu_catalog_version", "allowed_mods_version">>]

\* Python values of a key payload: str, mapping (keys in insertion order), list, tuple,
\* set (elements in iteration order) and None
StrVal(s) == [t |-> "str", s |-> s, keys |-> <<>>, items |-> <<>>]
MapVal(keys, items) == [t |-> "map", s |-> "", keys |-> keys, items |-> items]
ListVal(items) == [t |-> "list", s |-> "", keys |-> <<>>, items |-> items]
TupleVal(items) == [t |-> "tuple", s |-> "", keys |-> <<>>, items |-> items]
SetVal(items) == [t |-> "set", s |-> "", keys |-> <<>>, items |-> items]
NoneVal == [t |-> "none", s |-> "", keys |-> <<>>, items |-> <<>>]

\* the strings of the payloads, in the order sorted() gives them
Alphabetical ==
    <<"", "a", "allowed_mods_version", "b", "menu_catalog_version", "mild", "name_raw",
      "note_raw", "soup", "tags", "tea", "v1", "v2", "x", "y">>

StrRank(s) == CHOOSE i \in 1..Len(Alphabetical) : Alphabetical[i] = s

\* sorted(items, key=...), ranks[i] being the key of items[i]: a stable sort
SortedBy(items, ranks) ==
    LET n == Len(items)
        pos(i) == 1 + Cardinality({j \in 1..n : \/ ranks[j] < ranks[i]
                                                \/ ranks[j] = ranks[i] /\ j < i})
    IN  [p \in 1..n |-> items[CHOOSE i \in 1..n : pos(i) = p]]

StrRanks(strings) == [i \in 1..Len(strings) |-> StrRank(strings[i])]

\* mapping.get(key): <<value>>, or <<>> when the key is absent
MapGet(mapping, key) ==
    LET at == {i \in 1..Len(mapping.keys) : mapping.keys[i] = key}
    IN  IF at = {} THEN <<>> ELSE <<mapping.items[CHOOSE i \in at : TRUE]>>

\* the TypeError of isinstance(value, (set, frozenset)): in cache.py the name set is the
\* module's function set(namespace, key_payload, ...), not the builtin type
TypeErrorVal == [t |-> "TypeError", s |-> "", keys |-> <<>>, items |-> <<>>]

Raises(values) == \E i \in 1..Len(values) : values[i] = TypeErrorVal

RECURSIVE _normalize_value(_)
_normalize_value(value) ==
    CASE value.t = "str" -> StrVal(Strip(value.s))
      [] value.t = "map" ->
            LET keys == SortedBy(value.keys, StrRanks(value.keys))
                nested == [i \in 1..Len(keys) |-> _normalize_value(MapGet(value, keys[i])[1])]
            IN  IF Raises(nested) THEN TypeErrorVal ELSE MapVal(keys, nested)
      [] value.t \in {"list", "tuple"} ->
            LET normalized == [i \in 1..Len(value.items) |->
                                  _normalize_value(value.items[i])]
            IN  IF Raises(normalized) THEN TypeErrorVal ELSE ListVal(normalized)
      [] OTHER -> TypeErrorVal

_normalize_payload(payload) ==
    LET keys == SortedBy(payload.keys, StrRanks(payload.keys))
        normalized == [i \in 1..Len(keys) |-> _normalize_value(MapGet(payload, keys[i])[1])]
    IN  IF Raises(normalized) THEN TypeErrorVal ELSE MapVal(keys, normalized)

_is_missing_required(got) ==
    \/ got = <<>>
    \/ got[1].t = "none"
    \/ got[1].t = "str" /\ Strip(got[1].s) = ""

\* json.dumps(..., sort_keys=True, separators=(",", ":")) of a normalized payload: the
\* text determines the payload and the payload the text
CanonicalJson(normalized) == [json |-> normalized]

\* hashlib.sha256: different texts have different digests
Sha256(canonical) == [sha256 |-> canonical]

ValueError == [raised |-> "ValueError", key |-> <<>>]

TypeError == [raised |-> "TypeError", key |-> <<>>]

_make_key(namespace, key_payload) ==
    IF namespace \notin CACHE_NAMESPACES THEN ValueError
    ELSE LET required_fields == _NAMESPACE_KEY_REQUIREMENTS[namespace]
             missing == SelectSeq(required_fields,
                                  LAMBDA f : _is_missing_required(MapGet(key_payload, f)))
             normalized_payload == _normalize_payload(key_payload)
         IN  IF missing # <<>> THEN ValueError
             ELSE IF normalized_payload = TypeErrorVal THEN TypeError
             ELSE [raised |-> None,
                   key |-> <<namespace, Sha256(CanonicalJson(normalized_payload))>>]

\* ------------------------------------------------------ _make_key over payloads

\* the pipeline is not running
PipelineIdle ==
    /\ pc = "idle"
    /\ order_raw = <<>> /\ candidates = <<>>
    /\ menu_catalog = NoCatalog /\ thresholds = DefaultThresholds
    /\ structured = NoStructured /\ merged = NoResult
    /\ llm_client = NoClient /\ prompt_ok = TRUE /\ stage = NoStage /\ client_log = <<>>
    /\ receipt_text = <<>> /\ ingest = <<>>

NameInputs == {"soup", " soup ", "tea", "  "}
VersionInputs == {"v1", "v2"}

\* values of an optional tags field: the same two strings as a set in both iteration
\* orders, as a list, as a tuple, with whitespace, and as a nested mapping in both
\* key orders; None
TagsInputs ==
    {SetVal(<<StrVal("a"), StrVal("b")>>), SetVal(<<StrVal("b"), StrVal("a")>>),
     SetVal(<<StrVal("b"), StrVal(" a ")>>),
     ListVal(<<StrVal("a"), StrVal("b")>>), TupleVal(<<StrVal(" a "), StrVal("b")>>),
     ListVal(<<StrVal("b"), StrVal("a")>>),
     MapVal(<<"x", "y">>, <<StrVal("a"), StrVal("b")>>),
     MapVal(<<"y", "x">>, <<StrVal("b"), StrVal("a")>>),
     MapVal(<<"y", "x">>, <<StrVal("a"), StrVal("b")>>),
     NoneVal}

PayloadInputs ==
    LET Plain(n, v) == MapVal(<<"name_raw", "menu_catalog_version">>, <<StrVal(n), StrVal(v)>>)
        Swapped(n, v) == MapVal(<<"menu_catalog_version", "name_raw">>, <<StrVal(v), StrVal(n)>>)
        Tagged(n, v, tags) ==
            MapVal(<<"tags", "name_raw", "menu_catalog_version">>, <<tags, StrVal(n), StrVal(v)>>)
        Noted(n, v) ==
            MapVal(<<"note_raw", "name_raw", "allowed_mods_version", "menu_catalog_version">>,
                   <<StrVal("mild"), StrVal(n), StrVal(v), StrVal(v)>>)
    IN  {Plain(n, v) : n \in NameInputs, v \in VersionInputs}
        \cup {Swapped(n, v) : n \in NameInputs, v \in VersionInputs}
        \cup {Tagged("soup", "v1", tags) : tags \in TagsInputs}
        \cup {MapVal(<<"name_raw", "menu_catalog_version", "tags">>,
                     <<StrVal("soup"), StrVal("v1"), tags>>) : tags \in TagsInputs}
        \cup {Noted(n, "v1") : n \in {"soup", " soup "}}
        \cup {MapVal(<<"name_raw">>, <<StrVal("soup")>>),
              MapVal(<<"name_raw", "menu_catalog_version">>, <<StrVal("soup"), NoneVal>>)}

NamespaceInputs == {ITEM_MAPPING_CACHE, NOTE_MODS_CACHE, "order_cache"}

InitKeys ==
    /\ PipelineIdle
    /\ key_inputs \in [namespace : NamespaceInputs, payload : PayloadInputs,
                        other_namespace : NamespaceInputs, other_payload : PayloadInputs]
    /\ made_keys = <<>>
    /\ _store = <<>> /\ clock = 0 /\ cache_calls = <<>> /\ last_write = <<>>
    /\ log_file = <<>> /\ o_append = "atomic" /\ audit_calls = <<>>
    /\ written = <<>> /\ listed = <<>>

\* _make_key for both payloads, and for the canonical form of the first
MakeKeys ==
    /\ made_keys = <<>>
    /\ made_keys' =
          [first |-> _make_key(key_inputs.namespace, key_inputs.payload),
           other |-> _make_key(key_inputs.other_namespace, key_inputs.other_payload),
           canonical |-> IF _normalize_payload(key_inputs.payload) = TypeErrorVal
                         THEN TypeError
                         ELSE _make_key(key_inputs.namespace,
                                        _normalize_payload(key_inputs.payload))]
    /\ UNCHANGED <<key_inputs, pipeline_vars, cache_vars, audit_vars, entry_vars>>

NextKeys == MakeKeys

SpecKeys == InitKeys /\ [][NextKeys]_vars

\* v and w differ at most in the order of mapping keys, the iteration order of sets,
\* list-versus-tuple form, and leading or trailing whitespace of strings
RECURSIVE SameUpToForm(_, _)
SameUpToForm(v, w) ==
    CASE v.t = "str" /\ w.t = "str" -> Strip(v.s) = Strip(w.s)
      [] v.t = "map" /\ w.t = "map" ->
            /\ Range(v.keys) = Range(w.keys)
            /\ \A k \in Range(v.keys) : SameUpToForm(MapGet(v, k)[1], MapGet(w, k)[1])
      [] v.t \in {"list", "tuple"} /\ w.t \in {"list", "tuple"} ->
            /\ Len(v.items) = Len(w.items)
            /\ \A i \in 1..Len(v.items) : SameUpToForm(v.items[i], w.items[i])
      [] v.t = "set" /\ w.t = "set" ->
            /\ Len(v.items) = Len(w.items)
            /\ \E f \in Permutations(1..Len(v.items)) :
                  \A i \in 1..Len(v.items) : SameUpToForm(v.items[i], w.items[f[i]])
      [] OTHER -> v = w

\* a payload the namespace accepts: the namespace is known and its key fields are given
Acceptable(namespace, payload) ==
    /\ namespace \in CACHE_NAMESPACES
    /\ \A i \in 1..Len(_NAMESPACE_KEY_REQUIREMENTS[namespace]) :
          LET got == MapGet(payload, _NAMESPACE_KEY_REQUIREMENTS[namespace][i])
          IN  got # <<>> /\ got[1].t = "str" /\ got[1].s \notin {"", "  "}

\* v holds a value that is no string, mapping, list or tuple
RECURSIVE HasOtherValue(_)
HasOtherValue(v) ==
    v.t \in {"set", "none"} \/ \E i \in 1..Len(v.items) : HasOtherValue(v.items[i])

\* p and q differ in a key field of the namespace by more than whitespace
KeyFieldsDiffer(namespace, p, q) ==
    \E i \in 1..Len(_NAMESPACE_KEY_REQUIREMENTS[namespace]) :
        LET f == _NAMESPACE_KEY_REQUIREMENTS[namespace][i]
        IN  Strip(MapGet(p, f)[1].s) # Strip(MapGet(q, f)[1].s)

KeysAsked ==
    /\ made_keys # <<>>
    /\ Acceptable(key_inputs.namespace, key_inputs.payload)
    /\ Acceptable(key_inputs.other_namespace, key_inputs.other_payload)

KeysCanonical ==
    LET same_namespace == key_inputs.namespace = key_inputs.other_namespace
        p == key_inputs.payload
        q == key_inputs.other_payload
    IN  /\ made_keys.first.raised = None /\ made_keys.other.raised = None
        /\ (same_namespace /\ SameUpToForm(p, q)) => made_keys.first = made_keys.other
        /\ made_keys.canonical = made_keys.first
        /\ (same_namespace /\ KeyFieldsDiffer(key_inputs.namespace, p, q)) =>
              made_keys.first.key # made_keys.other.key
        /\ ~same_namespace => made_keys.first.key # made_keys.other.key

\* C16 as stated: in one namespace, payloads that differ only in mapping key order, set
\* iteration order, list-versus-tuple form or whitespace around strings get the same
\* key; the key of a payload is the key of its canonical form; payloads of different
\* canonical forms get different keys; one payload gets different keys in two
\* namespaces.
C16_KeyIsCanonical == KeysAsked => KeysCanonical

\* what the code does: the statement holds for payloads of strings, mappings, lists
\* and tuples, and a payload holding any other value raises TypeError
C16_CanonicalWithoutOtherValues ==
    KeysAsked =>
        IF HasOtherValue(key_inputs.payload) \/ HasOtherValue(key_inputs.other_payload)
        THEN /\ HasOtherValue(key_inputs.payload) => made_keys.first = TypeError
             /\ HasOtherValue(key_inputs.other_payload) => made_keys.other = TypeError
        ELSE KeysCanonical

\* a payload with a set among its values: _make_key raises TypeError
C16_SetRaisesTypeError ==
    /\ KeysAsked
    /\ \E i \in 1..Len(key_inputs.payload.items) : key_inputs.payload.items[i].t = "set"
    /\ made_keys.first = TypeError

\* key order, list-versus-tuple form and whitespace differ: the same key
C16_SameKeyWitness ==
    /\ KeysAsked
    /\ key_inputs.namespace = key_inputs.other_namespace
    /\ MapGet(key_inputs.payload, "tags") = <<ListVal(<<StrVal("a"), StrVal("b")>>)>>
    /\ MapGet(key_inputs.other_payload, "tags") = <<TupleVal(<<StrVal(" a "), StrVal("b")>>)>>
    /\ key_inputs.payload.keys # key_inputs.other_payload.keys
    /\ made_keys.first.raised = None
    /\ made_keys.first = made_keys.other

\* the same payload in two namespaces: different keys
C16_NamespaceWitness ==
    /\ KeysAsked
    /\ key_inputs.namespace # key_inputs.other_namespace
    /\ key_inputs.payload = key_inputs.other_payload
    /\ made_keys.first.raised = None
    /\ made_keys.first.key # made_keys.other.key

\* ------------------------------------------------------------- POSNormCache

MaxTime == 3

\* POSNormCache(namespace_ttls=...): seconds; a TTL of 0 gives entries that never expire
ShortTtl == 2

_namespace_ttls ==
    [item_mapping_cache |-> ShortTtl, note_mods_cache |-> 0, group_pattern_cache |-> ShortTtl]

NoExpiry == -1

CacheEntry(value, confidence, created_at, expires_at) ==
    [value |-> value, confidence |-> confidence, meta |-> "meta:" \o value,
     created_at |-> created_at, expires_at |-> expires_at]

\* an entry lives one tick longer
IsExpiredLate(entry, now) == entry.expires_at # NoExpiry /\ now > entry.expires_at

is_expired(entry, now) == entry.expires_at # NoExpiry /\ now >= entry.expires_at

\* MemoryCacheBackend
BackendGet(store, key) == IF key \in DOMAIN store THEN <<store[key]>> ELSE <<>>

BackendSet(store, key, entry) ==
    [k \in DOMAIN store \cup {key} |-> IF k = key THEN entry ELSE store[k]]

BackendDelete(store, key) == [k \in DOMAIN store \ {key} |-> store[k]]

\* what callers ask the cache: a namespace and a key payload
SoupPayload == MapVal(<<"name_raw", "menu_catalog_version">>, <<StrVal("soup"), StrVal("v1")>>)
SpacedSoupPayload ==
    MapVal(<<"menu_catalog_version", "name_raw">>, <<StrVal("v1"), StrVal(" soup ")>>)
NotePayload == MapVal(<<"note_raw", "allowed_mods_version">>, <<StrVal("mild"), StrVal("v1")>>)

CacheAddresses ==
    {[namespace |-> ITEM_MAPPING_CACHE, payload |-> SoupPayload],
     [namespace |-> ITEM_MAPPING_CACHE, payload |-> SpacedSoupPayload],
     [namespace |-> NOTE_MODS_CACHE, payload |-> NotePayload],
     [namespace |-> NOTE_MODS_CACHE, payload |-> SoupPayload]}

\* value and confidence (hundredths) given to set
CacheValues == {[value |-> "I001", confidence |-> 80], [value |-> "I007", confidence |-> 150]}

IdleCall == [pc |-> "idle", op |-> None, key |-> <<>>, entry |-> <<>>, result |-> <<>>, at |-> 0]

CanCall(c) == cache_calls[c].pc \in {"idle", "returned", "raised"}

\* self._make_key(namespace, key_payload) for each of them
MadeKeys == [address \in CacheAddresses |-> _make_key(address.namespace, address.payload)]

KeyOf(address) == MadeKeys[address]

\* _make_key raises: the call ends without touching the backend
CacheCallRaises(c) ==
    /\ CanCall(c)
    /\ \E address \in CacheAddresses, op \in {"get", "set", "invalidate"} :
          /\ KeyOf(address).raised # None
          /\ cache_calls' = [cache_calls EXCEPT ![c] =
                [IdleCall EXCEPT !.pc = "raised", !.op = op, !.result = <<KeyOf(address).raised>>]]
    /\ UNCHANGED <<_store, clock, last_write, key_vars, audit_vars, pipeline_vars, entry_vars>>

\* POSNormCache.set
CacheSet(c) ==
    /\ CanCall(c)
    /\ \E address \in CacheAddresses, v \in CacheValues :
          LET key == KeyOf(address).key
              ttl_s == _namespace_ttls[address.namespace]
              entry == CacheEntry(v.value,
                                  IF v.confidence > 100 THEN 100
                                  ELSE IF v.confidence < 0 THEN 0 ELSE v.confidence,
                                  clock,
                                  IF ttl_s > 0 THEN clock + ttl_s ELSE NoExpiry)
          IN  /\ KeyOf(address).raised = None
              /\ _store' = BackendSet(_store, key, entry)
              /\ last_write' = BackendSet(last_write, key, [op |-> "set", entry |-> <<entry>>])
              /\ cache_calls' = [cache_calls EXCEPT ![c] =
                    [pc |-> "returned", op |-> "set", key |-> key, entry |-> <<>>,
                     result |-> <<entry>>, at |-> clock]]
    /\ UNCHANGED <<clock, key_vars, audit_vars, pipeline_vars, entry_vars>>

\* POSNormCache.invalidate
CacheInvalidate(c) ==
    /\ CanCall(c)
    /\ \E address \in CacheAddresses :
          LET key == KeyOf(address).key
          IN  /\ KeyOf(address).raised = None
              /\ _store' = BackendDelete(_store, key)
              /\ last_write' = BackendSet(last_write, key, [op |-> "invalidate", entry |-> <<>>])
              /\ cache_calls' = [cache_calls EXCEPT ![c] =
                    [pc |-> "returned", op |-> "invalidate", key |-> key, entry |-> <<>>,
                     result |-> <<>>, at |-> clock]]
    /\ UNCHANGED <<clock, key_vars, audit_vars, pipeline_vars, entry_vars>>

\* POSNormCache.get up to entry = self._backend.get(namespace, key)
CacheGetRead(c) ==
    /\ CanCall(c)
    /\ \E address \in CacheAddresses :
          LET key == KeyOf(address).key
              entry == BackendGet(_store, key)
          IN  /\ KeyOf(address).raised = None
              /\ cache_calls' = [cache_calls EXCEPT ![c] =
                    [pc |-> IF entry = <<>> THEN "returned" ELSE "read", op |-> "get",
                     key |-> key, entry |-> entry, result |-> <<>>, at |-> clock]]
    /\ UNCHANGED <<_store, clock, last_write, key_vars, audit_vars, pipeline_vars, entry_vars>>

\* entry.is_expired(), which reads time.time()
CacheGetCheck(c) ==
    /\ cache_calls[c].pc = "read"
    /\ LET call == cache_calls[c]
       IN  cache_calls' = [cache_calls EXCEPT ![c] =
              IF is_expired(call.entry[1], clock)
              THEN [call EXCEPT !.pc = "expired", !.at = clock]
              ELSE [call EXCEPT !.pc = "returned", !.result = call.entry, !.at = clock]]
    /\ UNCHANGED <<_store, clock, last_write, key_vars, audit_vars, pipeline_vars, entry_vars>>

\* self._backend.delete(namespace, key); return None
CacheGetDelete(c) ==
    /\ cache_calls[c].pc = "expired"
    /\ _store' = BackendDelete(_store, cache_calls[c].key)
    /\ cache_calls' = [cache_calls EXCEPT ![c].pc = "returned", ![c].result = <<>>]
    /\ UNCHANGED <<clock, last_write, key_vars, audit_vars, pipeline_vars, entry_vars>>

\* time passes
Tick ==
    /\ clock < MaxTime
    /\ clock' = clock + 1
    /\ UNCHANGED <<_store, cache_calls, last_write, key_vars, audit_vars, pipeline_vars, entry_vars>>

InitCacheOf(callers) ==
    /\ PipelineIdle
    /\ _store = <<>> /\ clock = 0 /\ last_write = <<>>
    /\ cache_calls = [c \in callers |-> IdleCall]
    /\ key_inputs = <<>> /\ made_keys = <<>>
    /\ log_file = <<>> /\ o_append = "atomic" /\ audit_calls = <<>>
    /\ written = <<>> /\ listed = <<>>

\* one caller
InitCache == InitCacheOf({1})

\* two callers on one POSNormCache
InitCacheShared == InitCacheOf({1, 2})

NextCache ==
    \/ \E c \in DOMAIN cache_calls : CacheCallRaises(c)
    \/ \E c \in DOMAIN cache_calls : CacheSet(c)
    \/ \E c \in DOMAIN cache_calls : CacheInvalidate(c)
    \/ \E c \in DOMAIN cache_calls : CacheGetRead(c)
    \/ \E c \in DOMAIN cache_calls : CacheGetCheck(c)
    \/ \E c \in DOMAIN cache_calls : CacheGetDelete(c)
    \/ Tick

SpecCache == InitCache /\ [][NextCache]_vars

SpecCacheShared == InitCacheShared /\ [][NextCache]_vars

\* the get calls that returned, for a key whose last completed write is a set in a
\* namespace with TTL > 0
GetsAfterSet ==
    {c \in DOMAIN cache_calls :
        /\ cache_calls[c].pc = "returned" /\ cache_calls[c].op = "get"
        /\ cache_calls[c].key \in DOMAIN last_write
        /\ last_write[cache_calls[c].key].op = "set"
        /\ _namespace_ttls[cache_calls[c].key[1]] > 0}

\* C15: in a namespace with TTL > 0, a get at time t after a set at time t0, with no
\* later set or invalidate of the key, returns the stored entry when t < t0 + TTL, and
\* returns null when t >= t0 + TTL, the entry then being gone from the backend.
C15_GetWithinTtl ==
    \A c \in GetsAfterSet :
        LET call == cache_calls[c]
            stored == last_write[call.key].entry
            ttl_s == _namespace_ttls[call.key[1]]
        IN  IF call.at < stored[1].created_at + ttl_s
            THEN call.result = stored
            ELSE call.result = <<>> /\ call.key \notin DOMAIN _store

\* a get in the last tick of the TTL returns the entry
C15_Witness ==
    \E c \in GetsAfterSet :
        LET call == cache_calls[c]
            stored == last_write[call.key].entry
        IN  /\ call.at = stored[1].created_at + ShortTtl - 1
            /\ call.result = stored
            /\ stored[1].value = "I007" /\ stored[1].confidence = 100

\* a get at the expiry time misses and the entry is deleted
C15_ExpiredWitness ==
    \E c \in GetsAfterSet :
        LET call == cache_calls[c]
            stored == last_write[call.key].entry
        IN  /\ call.at = stored[1].created_at + ShortTtl
            /\ call.entry = stored
            /\ call.result = <<>>
            /\ call.key \notin DOMAIN _store

\* C17 as stated: with several callers on one cache, a set that has completed stays in
\* the cache, unchanged, until it expires or the next set or invalidate of its key; no
\* concurrent get removes it.
C17_CompletedSetStays ==
    \A key \in DOMAIN last_write :
        (/\ last_write[key].op = "set"
         /\ ~is_expired(last_write[key].entry[1], clock)) =>
            BackendGet(_store, key) = last_write[key].entry

\* a get that had read an older, expired entry deleted the entry of a later set
C17_StaleGetDeletedFreshEntry ==
    \E key \in DOMAIN last_write, c \in DOMAIN cache_calls :
        /\ last_write[key].op = "set"
        /\ ~is_expired(last_write[key].entry[1], clock)
        /\ key \notin DOMAIN _store
        /\ cache_calls[c].pc = "returned" /\ cache_calls[c].op = "get"
        /\ cache_calls[c].key = key
        /\ cache_calls[c].entry # <<>>
        /\ cache_calls[c].entry # last_write[key].entry
        /\ cache_calls[c].result = <<>>


\* ------------------------------------------------------------ AuditLogger

MaxLog == 3       \* write_event calls that reach the file, per log

NoCorrection == [is |-> "None", after |-> None, operator |-> None]

Correction(after, operator) == [is |-> "dict", after |-> after, operator |-> operator]

\* a human_correction that is not an object
TextCorrection == [is |-> "str", after |-> None, operator |-> None]

ValueErrorCorrection == [is |-> "ValueError", after |-> None, operator |-> None]

NoOutput == [is |-> "None", overall_needs_review |-> FALSE]

Output(flag) == [is |-> "dict", overall_needs_review |-> flag]

\* a mapping given to write_event; 'after' is the legacy top-level field
LogEvent(order_id, event_type, timestamp) ==
    [order_id |-> order_id, event_type |-> event_type, timestamp |-> timestamp,
     raw_text |-> None, fallback_reason |-> None, final_output |-> NoOutput,
     human_correction |-> NoCorrection, after |-> None,
     metadata |-> [needs_review |-> FALSE], needs_review |-> FALSE]

_normalize_human_correction(payload) ==
    LET legacy_after == payload.after
        correction == IF payload.human_correction.is = "None" /\ legacy_after # None
                      THEN Correction(legacy_after, None)
                      ELSE payload.human_correction
    IN  IF correction.is = "None" THEN NoCorrection
        ELSE IF correction.is # "dict" THEN ValueErrorCorrection
        ELSE Correction(IF correction.after = None THEN legacy_after ELSE correction.after,
                        IF correction.operator = None \/ Strip(correction.operator) = ""
                        THEN "unknown" ELSE Strip(correction.operator))

\* a value that is not a str (a number)
NotAString == "<not a string>"

\* a mutant of _to_event_payload: nothing is validated
PayloadWithoutValidation(event) == [raised |-> None, payload |-> event]

\* the events carry their timestamp, so setdefault("timestamp", now) keeps it
_to_event_payload(event) ==
    IF event.order_id = NotAString \/ ~NonBlankStr(event.order_id)
    THEN [raised |-> "ValueError", payload |-> event]
    ELSE IF event.event_type = NotAString \/ ~NonBlankStr(event.event_type)
    THEN [raised |-> "ValueError", payload |-> event]
    ELSE LET correction == _normalize_human_correction(event)
         IN  IF correction = ValueErrorCorrection
             THEN [raised |-> "ValueError", payload |-> event]
             ELSE [raised |-> None,
                   payload |-> [event EXCEPT !.human_correction = correction]]

\* json.dumps(payload) + "\n", in blocks of the file; the last block ends with the
\* newline.  A payload with raw_text takes two blocks, any other one.
LineBlocks(payload) == IF payload.raw_text = None THEN 1 ELSE 2

JsonLine(payload) ==
    [part \in 1..LineBlocks(payload) |->
        [json |-> payload, part |-> part, of |-> LineBlocks(payload)]]

\* a write of the blocks at an offset of the file
WriteAt(file, offset, blocks) ==
    LET end == offset + Len(blocks)
        size == IF Len(file) > end THEN Len(file) ELSE end
    IN  [i \in 1..size |-> IF i > offset /\ i <= end THEN blocks[i - offset] ELSE file[i]]

\* the members of a set of integers, ascending
InOrder(S) ==
    [k \in 1..Cardinality(S) |-> CHOOSE i \in S : Cardinality({j \in S : j <= i}) = k]

LineEnds(file) == {i \in 1..Len(file) : file[i].part = file[i].of}

LineStart(file, end) ==
    LET before == {i \in LineEnds(file) : i < end}
    IN  IF before = {} THEN 1 ELSE 1 + CHOOSE i \in before : \A j \in before : j <= i

\* json.loads(raw) succeeds on the blocks of one payload, whole and in order
Parses(file, end) ==
    LET start == LineStart(file, end)
    IN  /\ end - start + 1 = file[end].of
        /\ \A i \in start..end : file[i].json = file[end].json /\ file[i].part = i - start + 1

\* a mutant of _read_all: nothing is read
ReadNoLines(file) == <<>>

_read_all(file) ==
    LET parsed == InOrder({end \in LineEnds(file) : Parses(file, end)})
    IN  [k \in 1..Len(parsed) |-> file[parsed[k]].json]

list_events(file, order_id) ==
    SelectSeq(_read_all(file), LAMBDA event : event.order_id = order_id)

list_by_type(file, event_type) ==
    SelectSeq(_read_all(file), LAMBDA event : event.event_type = event_type)

_event_needs_review(event) ==
    \/ event.needs_review = TRUE
    \/ event.metadata.needs_review = TRUE
    \/ event.fallback_reason # None /\ Strip(event.fallback_reason) # ""
    \/ event.final_output.is = "dict" /\ event.final_output.overall_needs_review = TRUE

\* a mutant of latest_manual_fix_index: no correction is found
NoManualFix(events) == 0

\* the position of the last manual_correction with a non-null after, 0 when there
\* is none (the code counts from 0 and has -1 for none)
latest_manual_fix_index(events) ==
    LET fixes == {index \in 1..Len(events) :
                     /\ events[index].event_type = "manual_correction"
                     /\ events[index].human_correction.is = "dict"
                     /\ events[index].human_correction.after # None}
    IN  IF fixes = {} THEN 0 ELSE CHOOSE index \in fixes : \A other \in fixes : other <= index

\* list(dict.fromkeys(values))
Deduplicated(values) ==
    LET firsts == {i \in 1..Len(values) : \A j \in 1..(i - 1) : values[j] # values[i]}
        kept == InOrder(firsts)
    IN  [k \in 1..Len(kept) |-> values[kept[k]]]

\* the row of one order, <<>> when it has no pending event
ReviewRow(order_id, events, unresolved_only) ==
    LET latest == latest_manual_fix_index(events)
        pending == InOrder({index \in 1..Len(events) :
                               /\ _event_needs_review(events[index])
                               /\ ~(unresolved_only /\ index <= latest)})
        previews == {index \in 1..Len(events) : events[index].raw_text # None}
    IN  IF Len(pending) = 0 THEN <<>>
        ELSE <<[order_id |-> order_id,
                latest_event_type |-> events[Len(events)].event_type,
                latest_timestamp |-> events[Len(events)].timestamp,
                pending_event_types |->
                    Deduplicated([k \in 1..Len(pending) |-> events[pending[k]].event_type]),
                pending_count |-> Len(pending),
                has_manual_correction |-> latest >= 1,
                latest_manual_correction |->
                    IF latest >= 1 THEN events[latest].human_correction ELSE NoCorrection,
                raw_preview |->
                    IF previews = {} THEN None
                    ELSE events[CHOOSE i \in previews : \A j \in previews : j <= i].raw_text]>>

RECURSIVE Concatenated(_)
Concatenated(seqs) == IF seqs = <<>> THEN <<>> ELSE Head(seqs) \o Concatenated(Tail(seqs))

list_review_queue(file, limit, unresolved_only) ==
    LET events == _read_all(file)
        by_order == Deduplicated([i \in 1..Len(events) |-> events[i].order_id])
        queue == Concatenated([k \in 1..Len(by_order) |->
                     ReviewRow(by_order[k],
                               SelectSeq(events, LAMBDA event : event.order_id = by_order[k]),
                               unresolved_only)])
        sorted == SortedBy(queue, [k \in 1..Len(queue) |-> 0 - queue[k].latest_timestamp])
        safe_limit == IF limit < 0 THEN 0 ELSE limit
    IN  SubSeq(sorted, 1, IF safe_limit < Len(sorted) THEN safe_limit ELSE Len(sorted))

\* ---- the calls on one log file

IdleWriter(pool) == [pc |-> "idle", pool |-> pool, line |-> <<>>, offset |-> 0]

NoListing == [op |-> None, order_id |-> None, event_type |-> None, limit |-> 0,
              unresolved_only |-> FALSE, result |-> <<>>, at |-> 0]

BetweenCalls(c) == audit_calls[c].pc \in {"idle", "returned", "raised"}

InFlight == {c \in DOMAIN audit_calls : audit_calls[c].pc \in {"open", "seeked"}}

\* write_event up to the open file: the payload is built and the line is in the
\* buffer of the handle.  What the caller's last listing returned is dropped.
WriteEventBegin(c) ==
    /\ BetweenCalls(c)
    /\ Len(written) + Cardinality(InFlight) < MaxLog
    /\ \E event \in audit_calls[c].pool :
          LET made == _to_event_payload(event)
          IN  audit_calls' =
                 IF made.raised # None
                 THEN [audit_calls EXCEPT ![c].pc = "raised", ![c].line = <<>>]
                 ELSE [audit_calls EXCEPT ![c].pc = "open", ![c].line = JsonLine(made.payload)]
    /\ listed' = NoListing
    /\ UNCHANGED <<log_file, o_append, written>>
    /\ UNCHANGED <<pipeline_vars, cache_vars, key_vars, entry_vars>>

\* the handle is closed and the line goes to the end of the file in one append
WriteEventAppend(c) ==
    /\ audit_calls[c].pc = "open"
    /\ o_append = "atomic"
    /\ log_file' = log_file \o audit_calls[c].line
    /\ written' = Append(written, audit_calls[c].line[1].json)
    /\ audit_calls' = [audit_calls EXCEPT ![c].pc = "returned"]
    /\ UNCHANGED <<o_append, listed>>
    /\ UNCHANGED <<pipeline_vars, cache_vars, key_vars, entry_vars>>

\* where appending is a seek to the end and then a write: the seek
WriteEventSeek(c) ==
    /\ audit_calls[c].pc = "open"
    /\ o_append = "seek_then_write"
    /\ audit_calls' = [audit_calls EXCEPT ![c].pc = "seeked", ![c].offset = Len(log_file)]
    /\ UNCHANGED <<log_file, o_append, written, listed>>
    /\ UNCHANGED <<pipeline_vars, cache_vars, key_vars, entry_vars>>

\* and the write
WriteEventWrite(c) ==
    /\ audit_calls[c].pc = "seeked"
    /\ log_file' = WriteAt(log_file, audit_calls[c].offset, audit_calls[c].line)
    /\ written' = Append(written, audit_calls[c].line[1].json)
    /\ audit_calls' = [audit_calls EXCEPT ![c].pc = "returned"]
    /\ UNCHANGED <<o_append, listed>>
    /\ UNCHANGED <<pipeline_vars, cache_vars, key_vars, entry_vars>>

OrderIds == {"A", "B"}

EventTypes == {"parse", "llm_fallback", "manual_correction"}

LimitInputs == {100, 1}

ListEvents(c) ==
    /\ BetweenCalls(c)
    /\ \E order_id \in OrderIds :
          listed' = [NoListing EXCEPT !.op = "list_events", !.order_id = order_id,
                                      !.result = list_events(log_file, order_id),
                                      !.at = Len(written)]
    /\ UNCHANGED <<log_file, o_append, audit_calls, written>>
    /\ UNCHANGED <<pipeline_vars, cache_vars, key_vars, entry_vars>>

ListByType(c) ==
    /\ BetweenCalls(c)
    /\ \E event_type \in EventTypes :
          listed' = [NoListing EXCEPT !.op = "list_by_type", !.event_type = event_type,
                                      !.result = list_by_type(log_file, event_type),
                                      !.at = Len(written)]
    /\ UNCHANGED <<log_file, o_append, audit_calls, written>>
    /\ UNCHANGED <<pipeline_vars, cache_vars, key_vars, entry_vars>>

ListReviewQueue(c) ==
    /\ BetweenCalls(c)
    /\ \E limit \in LimitInputs, unresolved_only \in BOOLEAN :
          listed' = [NoListing EXCEPT
                        !.op = "list_review_queue", !.limit = limit,
                        !.unresolved_only = unresolved_only,
                        !.result = list_review_queue(log_file, limit, unresolved_only),
                        !.at = Len(written)]
    /\ UNCHANGED <<log_file, o_append, audit_calls, written>>
    /\ UNCHANGED <<pipeline_vars, cache_vars, key_vars, entry_vars>>

\* ---- the events written

Fallback(event) == [event EXCEPT !.fallback_reason = "llm_timeout"]

Flagged(event) == [event EXCEPT !.needs_review = TRUE]

\* two orders, two event types, equal and decreasing timestamps, events whose
\* order_id or event_type is blank, missing or not a string, and one whose
\* human_correction is not an object
OrderedEvents ==
    {LogEvent(order_id, "parse", timestamp) : order_id \in OrderIds, timestamp \in {1, 2}}
    \cup {Fallback(LogEvent(order_id, "llm_fallback", timestamp)) :
             order_id \in OrderIds, timestamp \in {1, 2}}
    \cup {LogEvent("  ", "parse", 1), LogEvent(Missing, "parse", 1),
          LogEvent(NotAString, "parse", 1), LogEvent("A", "  ", 1),
          LogEvent("A", Missing, 1), LogEvent("B", NotAString, 1),
          [LogEvent("A", "manual_correction", 1) EXCEPT !.human_correction = TextCorrection]}

ManualFix(order_id, timestamp) ==
    [LogEvent(order_id, "manual_correction", timestamp) EXCEPT
        !.human_correction = Correction("I003", "reviewer_1")]

\* the ways an event is flagged for review or not, and the ways it corrects or not
ReviewEvents ==
    {LogEvent("A", "parse", 1),
     [Flagged(LogEvent("A", "ingest_pipeline", 1)) EXCEPT !.raw_text = "soup x2"],
     [LogEvent("A", "dispatch_decision", 1) EXCEPT !.final_output = Output(TRUE)],
     [LogEvent("A", "review_decision", 1) EXCEPT !.metadata = [needs_review |-> TRUE]],
     Fallback(LogEvent("A", "llm_fallback", 1)),
     ManualFix("A", 1),
     Flagged(ManualFix("A", 1)),
     [LogEvent("A", "manual_correction", 1) EXCEPT !.human_correction = Correction(None, " a ")],
     [LogEvent("A", "manual_correction", 1) EXCEPT !.after = "I003"],
     [LogEvent("A", "review_note", 1) EXCEPT !.human_correction = Correction("I003", None)],
     Flagged(LogEvent("B", "ingest_pipeline", 2))}

\* a short line and a long one
SharedEvents ==
    {LogEvent("A", "parse", 1),
     [LogEvent("B", "parse", 1) EXCEPT !.raw_text = "soup x2"],
     LogEvent("  ", "parse", 1)}

\* appending is atomic on a local POSIX file system; it is a seek and a write
\* where O_APPEND is emulated (NFS, the Windows C runtime)
InitAuditOf(callers, pool) ==
    /\ PipelineIdle
    /\ _store = <<>> /\ clock = 0 /\ cache_calls = <<>> /\ last_write = <<>>
    /\ key_inputs = <<>> /\ made_keys = <<>>
    /\ log_file = <<>>
    /\ o_append \in {"atomic", "seek_then_write"}
    /\ audit_calls = [c \in callers |-> IdleWriter(pool)]
    /\ written = <<>>
    /\ listed = NoListing

\* one caller
InitAudit == InitAuditOf({1}, OrderedEvents)

\* one caller, events of the review queue
InitReview == InitAuditOf({1}, ReviewEvents)

\* two callers on the same file
InitAuditShared == InitAuditOf({1, 2}, SharedEvents)

NextAudit ==
    \/ \E c \in DOMAIN audit_calls : WriteEventBegin(c)
    \/ \E c \in DOMAIN audit_calls : WriteEventAppend(c)
    \/ \E c \in DOMAIN audit_calls : WriteEventSeek(c)
    \/ \E c \in DOMAIN audit_calls : WriteEventWrite(c)
    \/ \E c \in DOMAIN audit_calls : ListEvents(c)
    \/ \E c \in DOMAIN audit_calls : ListByType(c)
    \/ \E c \in DOMAIN audit_calls : ListReviewQueue(c)

SpecAudit == InitAudit /\ [][NextAudit]_vars

SpecReview == InitReview /\ [][NextAudit]_vars

SpecAuditShared == InitAuditShared /\ [][NextAudit]_vars


\* ---- list_events and list_by_type over the events written

\* the events that write_event had returned when the listing was made
WrittenAt(listing) == SubSeq(written, 1, listing.at)

\* C18: after any sequence of successful write_event calls by one caller,
\* list_events(order_id) returns exactly the events written for that order_id in
\* the order they were appended, whatever their timestamps, and
\* list_by_type(event_type) does the same for the events of that type.
C18_ListedInAppendOrder ==
    /\ listed.op = "list_events" =>
          listed.result =
             SelectSeq(WrittenAt(listed), LAMBDA event : event.order_id = listed.order_id)
    /\ listed.op = "list_by_type" =>
          listed.result =
             SelectSeq(WrittenAt(listed), LAMBDA event : event.event_type = listed.event_type)

\* C18 witness: three events written, the middle one of another order, and the two
\* listed for the order come back oldest append first although the timestamps fall
C18_Witness ==
    /\ listed.op = "list_events"
    /\ Len(written) = 3
    /\ written[2].order_id # listed.order_id
    /\ Len(listed.result) = 2
    /\ listed.result[1] = written[1] /\ listed.result[2] = written[3]
    /\ listed.result[1].timestamp > listed.result[2].timestamp

\* C18: the same for list_by_type, two events of one type with equal timestamps
\* and different orders
C18_ByTypeWitness ==
    /\ listed.op = "list_by_type"
    /\ Len(listed.result) = 2
    /\ listed.result[1].timestamp = listed.result[2].timestamp
    /\ listed.result[1].order_id = "B" /\ listed.result[2].order_id = "A"

\* ---- write_event by two callers

Occurrences(events, event) == Cardinality({i \in 1..Len(events) : events[i] = event})

\* every line of the file is the whole line of one event
WholeLines ==
    /\ \A end \in LineEnds(log_file) : Parses(log_file, end)
    /\ log_file # <<>> => Len(log_file) \in LineEnds(log_file)

\* every event whose write_event returned is found by list_events
ReturnedEventsListed ==
    \A i \in 1..Len(written) :
        Occurrences(list_events(log_file, written[i].order_id), written[i])
            >= Occurrences(written, written[i])

\* C19: with several write_event calls appending to one file concurrently, every
\* line of the file is one whole event and every event whose write_event returned
\* is found by list_events.
C19_WholeLinesAndNothingLost == WholeLines /\ ReturnedEventsListed

\* C19: two write_event calls have returned, and the file holds a torn line and
\* has lost one of the two events
C19_TornAndLost ==
    /\ \A c \in DOMAIN audit_calls : audit_calls[c].pc = "returned"
    /\ Len(written) = 2
    /\ ~WholeLines
    /\ ~ReturnedEventsListed

\* C19: where the platform appends atomically the lines are whole and none is lost
C19_WholeWhereAppendIsAtomic == o_append = "atomic" => C19_WholeLinesAndNothingLost

\* ---- list_review_queue over the events written

IsFix(event) ==
    /\ event.event_type = "manual_correction"
    /\ event.human_correction.is = "dict"
    /\ event.human_correction.after # None

\* the order has a review-flagged event with no manual correction at or after it
UnresolvedIn(order_id, events) ==
    LET mine == SelectSeq(events, LAMBDA event : event.order_id = order_id)
    IN  \E i \in 1..Len(mine) :
            /\ _event_needs_review(mine[i])
            /\ \A j \in i..Len(mine) : ~IsFix(mine[j])

QueuedOrders(listing) == {listing.result[k].order_id : k \in 1..Len(listing.result)}

\* C20: with a limit that does not cut the queue, list_review_queue with
\* unresolved_only holds an order exactly when the log has a review-flagged event
\* of that order after the order's latest manual_correction with a non-null
\* human_correction.after (any flagged event when there is no such correction).
C20_UnresolvedQueue ==
    (/\ listed.op = "list_review_queue"
     /\ listed.unresolved_only
     /\ listed.limit >= Cardinality(OrderIds))
    => \A order_id \in OrderIds :
          order_id \in QueuedOrders(listed) <=> UnresolvedIn(order_id, WrittenAt(listed))

\* C20 witness: a flagged event, then the correction, then a flagged event again:
\* the order is back in the unresolved queue with the one event pending
C20_Witness ==
    /\ listed.op = "list_review_queue" /\ listed.unresolved_only /\ listed.limit = 100
    /\ Len(written) = 3
    /\ \A i \in 1..3 : written[i].order_id = "A"
    /\ _event_needs_review(written[1]) /\ IsFix(written[2]) /\ _event_needs_review(written[3])
    /\ Len(listed.result) = 1
    /\ listed.result[1].order_id = "A"
    /\ listed.result[1].pending_count = 1
    /\ listed.result[1].has_manual_correction

\* C20: a flagged event and then the correction: the order is not in the
\* unresolved queue, and it is in the queue of all flagged orders
C20_ResolvedWitness ==
    /\ listed.op = "list_review_queue" /\ listed.unresolved_only /\ listed.limit = 100
    /\ Len(written) = 2
    /\ written[1].order_id = "A" /\ _event_needs_review(written[1])
    /\ written[2].order_id = "A" /\ IsFix(written[2])
    /\ listed.result = <<>>
    /\ list_review_queue(log_file, 100, FALSE) # <<>>


\* ---- write_event on an invalid event

ValidLogEvent(event) ==
    /\ event.order_id \notin {None, Missing, NotAString, "", "  "}
    /\ event.event_type \notin {None, Missing, NotAString, "", "  "}
    /\ event.human_correction.is \in {"None", "dict"}

NoInvalidEventInLog == \A i \in 1..Len(log_file) : ValidLogEvent(log_file[i].json)

\* a step in which write_event raises
WriteEventRaises == \E c \in DOMAIN audit_calls : WriteEventBegin(c) /\ audit_calls'[c].pc = "raised"

RaiseLeavesLog ==
    WriteEventRaises =>
        /\ log_file' = log_file
        /\ written' = written
        /\ \A order_id \in OrderIds :
              list_events(log_file', order_id) = list_events(log_file, order_id)
        /\ \A unresolved_only \in BOOLEAN :
              list_review_queue(log_file', 100, unresolved_only)
                 = list_review_queue(log_file, 100, unresolved_only)

\* C21: an event whose order_id or event_type is missing, not a string or blank,
\* or whose human_correction is not an object, never reaches the log, and the
\* write_event call that raises leaves the file and the listings as they were.
C21_InvalidEventRejectedBeforeWrite == []NoInvalidEventInLog /\ [][RaiseLeavesLog]_vars

\* C21 witness: write_event has raised on a log that holds two events
C21_Witness ==
    /\ \E c \in DOMAIN audit_calls : audit_calls[c].pc = "raised"
    /\ Len(written) = 2
    /\ Len(_read_all(log_file)) = 2


\* ---- the rows of list_review_queue

\* the positions, among the order's events, of the review-flagged events after
\* the order's latest manual correction with a non-null after
PendingAfterFix(order_id, events) ==
    LET mine == SelectSeq(events, LAMBDA event : event.order_id = order_id)
    IN  {i \in 1..Len(mine) :
            /\ _event_needs_review(mine[i])
            /\ \A j \in i..Len(mine) : ~IsFix(mine[j])}

PendingTypesAfterFix(order_id, events) ==
    LET mine == SelectSeq(events, LAMBDA event : event.order_id = order_id)
        at == InOrder(PendingAfterFix(order_id, events))
    IN  Deduplicated([k \in 1..Len(at) |-> mine[at[k]].event_type])

RowCountsPendingAfterFix(row, events) ==
    /\ row.pending_count = Cardinality(PendingAfterFix(row.order_id, events))
    /\ row.pending_event_types = PendingTypesAfterFix(row.order_id, events)

\* C26: in every row of list_review_queue, with unresolved_only true or false,
\* pending_count is the number of the order's review-flagged events after its
\* latest manual correction with a non-null after, and pending_event_types has
\* the distinct event types of those events in log order.
C26_RowsCountPendingAfterFix ==
    listed.op = "list_review_queue" =>
        \A k \in 1..Len(listed.result) :
            RowCountsPendingAfterFix(listed.result[k], WrittenAt(listed))

\* C26: the same for the calls with unresolved_only = true only
C26_UnresolvedRowsCountPendingAfterFix ==
    (listed.op = "list_review_queue" /\ listed.unresolved_only) =>
        \A k \in 1..Len(listed.result) :
            RowCountsPendingAfterFix(listed.result[k], WrittenAt(listed))

\* C26: a flagged event and then its correction; list_review_queue with
\* unresolved_only = false has the order with pending_count 1 and the type of the
\* corrected event
C26_CorrectedEventCountedPending ==
    /\ listed.op = "list_review_queue" /\ ~listed.unresolved_only /\ listed.limit = 100
    /\ Len(written) = 2
    /\ written[1].order_id = "A" /\ _event_needs_review(written[1])
    /\ written[2].order_id = "A" /\ IsFix(written[2]) /\ ~_event_needs_review(written[2])
    /\ Len(listed.result) = 1
    /\ listed.result[1].pending_count = 1
    /\ listed.result[1].pending_event_types = <<written[1].event_type>>
    /\ listed.result[1].has_manual_correction


\* ---- executions of the client

ExecutionsIn(attempt) == {k \in 1..Len(client_log) : client_log[k].attempt = attempt}

\* C30: during one llm_normalize_and_group call the client's callable is executed
\* at most once per attempt and at most twice in total, whatever it returns or
\* raises.
C30_ClientExecutedOncePerAttempt ==
    /\ \A attempt \in 1..2 : Cardinality(ExecutionsIn(attempt)) <= 1
    /\ Len(client_log) <= 2

\* C30: the client raised TypeError in each of the four call forms of the first
\* attempt: it was executed four times, and the stage fell back with llm_api_error
C30_ExecutedFourTimesInOneAttempt ==
    /\ pc = "ready"
    /\ Cardinality(ExecutionsIn(1)) = 4
    /\ \A k \in ExecutionsIn(1) :
          client_log[k].does = "raises" /\ client_log[k].exc[1].cls = "TypeError"
    /\ structured.metadata.llm_attempts = 1
    /\ structured.metadata.fallback_reason = "llm_api_error"

\* C30: the executions of one call are at most four per attempt and eight in all
C30_AtMostFourPerAttempt ==
    /\ \A attempt \in 1..2 : Cardinality(ExecutionsIn(attempt)) <= 4
    /\ Len(client_log) <= 8


\* ---- the stage's review queue flag and the merged order

\* C28: when the structured stage reports metadata.review_queue.needs_review, the
\* order merge_and_validate returns for that structured result has
\* overall_needs_review and the dispatch route 'review-queue', and is not
\* auto-dispatched.
C28_ReviewQueueFlagReachesDispatch ==
    (pc = "merged" /\ structured.metadata.review_queue.needs_review) =>
        /\ merged.overall_needs_review
        /\ merged.metadata.dispatch_decision.route = _ROUTE_REVIEW_QUEUE
        /\ ~merged.metadata.dispatch_decision.should_auto_dispatch

\* C28: an order with lines, the LLM's items accepted and one of its groups dropped:
\* the stage asks for review, no item and no group is flagged, and the merged order
\* is auto-dispatched
C28_StageFlagAutoDispatched ==
    /\ pc = "merged"
    /\ order_raw.lines # <<>>
    /\ structured.metadata.fallback_reason = None
    /\ structured.metadata.review_queue.needs_review
    /\ structured.groups.elems = <<>>
    /\ structured.audit_events.elems # <<>>
    /\ ~merged.overall_needs_review
    /\ merged.metadata.dispatch_decision.route = _ROUTE_AUTO_DISPATCH
    /\ merged.metadata.dispatch_decision.should_auto_dispatch


\* ---- the review flags of an item's mods

FlaggedMods(item) == {k \in 1..Len(item.mods) : item.mods[k].needs_review}

\* C29: in every result of merge_and_validate an item with a mod whose
\* needs_review is true has needs_review true itself, so that
\* overall_needs_review is true and the order is not auto-dispatched.
C29_FlaggedModFlagsItem ==
    pc = "merged" =>
        \A i \in 1..Len(merged.items) :
            FlaggedMods(merged.items[i]) # {} =>
                /\ merged.items[i].needs_review
                /\ merged.overall_needs_review
                /\ ~merged.metadata.dispatch_decision.should_auto_dispatch

\* C29: an item with a flagged mod is not flagged itself, and the order is
\* auto-dispatched
C29_FlaggedModAutoDispatched ==
    /\ pc = "merged"
    /\ \E i \in 1..Len(merged.items) :
          /\ FlaggedMods(merged.items[i]) # {}
          /\ ~merged.items[i].needs_review
    /\ ~merged.overall_needs_review
    /\ merged.metadata.dispatch_decision.route = _ROUTE_AUTO_DISPATCH
    /\ merged.metadata.dispatch_decision.should_auto_dispatch

\* C29: a mod flagged only because its item's confidence_mods is below the mods
\* threshold or null comes with a flagged item
C29_LowItemConfidenceFlagsItem ==
    pc = "merged" =>
        \A i \in 1..Len(merged.items) :
            (merged.items[i].confidence_mods = NullConf
                \/ merged.items[i].confidence_mods < merged.metadata.thresholds.mods_threshold)
            => merged.items[i].needs_review

\* ==================================================================== parser.py

MaxTextLines == 3

\* lines of a receipt text. "note:" stands for the keyword with its colon,
\* "memo " for another keyword followed by a space, "soup" and "tea" for item
\* names, "---" for a separator line and "- " for a leading list marker
LineInputs ==
    {"soup x1", "tea x2 note:less_ice", "soup", "---", "  ",
     "note:spicy", "memo split", "note:", "- note:spicy"}

_normalize_for_parse(line) == Strip(line)

_is_noise_line(normalized_line) == normalized_line = "" \/ normalized_line = "---"

_strip_leading_markers(normalized) ==
    IF normalized = "- note:spicy" THEN "note:spicy" ELSE normalized

\* _NOTE_RE needs text after the keyword: "note:" alone holds no inline note
_extract_inline_note(text) ==
    CASE text = "tea x2 note:less_ice" -> [text |-> "tea x2", note |-> "less_ice"]
      [] text = "note:spicy" -> [text |-> "", note |-> "spicy"]
      [] text = "memo split" -> [text |-> "", note |-> "split"]
      [] OTHER -> [text |-> text, note |-> None]

_extract_name_and_qty(prepared) ==
    CASE prepared = "soup x1" -> [name |-> "soup", qty |-> 1, state |-> "ok"]
      [] prepared = "tea x2" -> [name |-> "tea", qty |-> 2, state |-> "ok"]
      [] OTHER -> [name |-> prepared, qty |-> None, state |-> "missing"]

\* _STANDALONE_NOTE_RE is anchored at the start of the line and needs a note text
_is_standalone_note(raw_line) ==
    LET normalized == _normalize_for_parse(raw_line)
    IN  CASE normalized = "note:spicy" -> "spicy"
          [] normalized = "memo split" -> "split"
          [] OTHER -> None

Warning(line_index, text) == "line " \o ToString(line_index) \o ": " \o text

\* _parse_line: the RawLine and the warnings list after the call
_parse_line(raw_line, line_index, warnings) ==
    LET normalized == _normalize_for_parse(raw_line)
        extracted == _extract_inline_note(_strip_leading_markers(normalized))
        prepared == extracted.text
        inline_note == extracted.note
        nq == _extract_name_and_qty(prepared)
        qty_missing == nq.state = "missing"
        qty == IF qty_missing THEN 1 ELSE nq.qty
        name_token == nq.name
        no_name == name_token = ""
        name_raw == IF no_name THEN normalized ELSE name_token
    IN  [line |-> [line_index |-> line_index, raw_line |-> raw_line,
                   name_raw |-> name_raw, qty |-> qty, note_raw |-> inline_note,
                   needs_review |-> qty_missing \/ no_name],
         warnings |-> warnings
             \o Cond(qty_missing, <<Warning(line_index, "qty missing, defaulted to 1")>>)
             \o Cond(no_name,
                     <<Warning(line_index, "unable to confidently parse item name")>>)]

NoteDroppingExisting(existing, standalone_note) == standalone_note

\* the note of the previous line after a standalone note was joined to it
MergedNote(existing, standalone_note) ==
    IF existing # None THEN existing \o "; " \o standalone_note ELSE standalone_note

WithNote(prev, note_raw) ==
    [line_index |-> prev.line_index, raw_line |-> prev.raw_line,
     name_raw |-> prev.name_raw, qty |-> prev.qty, note_raw |-> note_raw,
     needs_review |-> prev.needs_review]

\* the loop of parse_receipt_text over the first n lines of the text
RECURSIVE ParseLoop(_, _)
ParseLoop(text, n) ==
    IF n = 0 THEN [lines |-> <<>>, parse_warnings |-> <<>>]
    ELSE LET before == ParseLoop(text, n - 1)
             index == n - 1
             raw_line == text[n]
             normalized == _normalize_for_parse(raw_line)
             standalone_note == _is_standalone_note(raw_line)
             lines == before.lines
         IN  IF normalized = "" \/ _is_noise_line(normalized) THEN before
             ELSE IF standalone_note # None
             THEN IF lines # <<>>
                  THEN LET prev == lines[Len(lines)]
                       IN  [lines |-> [lines EXCEPT ![Len(lines)] =
                                          WithNote(prev, MergedNote(prev.note_raw,
                                                                    standalone_note))],
                            parse_warnings |-> before.parse_warnings]
                  ELSE [lines |-> lines,
                        parse_warnings |-> Append(before.parse_warnings,
                            Warning(index, "standalone note with no preceding item"))]
             ELSE LET parsed == _parse_line(raw_line, index, before.parse_warnings)
                  IN  [lines |-> Append(lines, parsed.line),
                       parse_warnings |-> parsed.warnings]

parse_receipt_text(text) ==
    LET done == ParseLoop(text, Len(text))
    IN  [source_text |-> text,
         lines |-> done.lines,
         order_id |-> None,
         parse_warnings |-> done.parse_warnings,
         needs_review |-> \/ done.parse_warnings # <<>>
                          \/ \E i \in 1..Len(done.lines) : done.lines[i].needs_review,
         metadata |-> [parse_errors |-> <<>>]]

TextInputs == SeqsUpTo(LineInputs, MaxTextLines)

InitParse ==
    /\ pc = "text"
    /\ receipt_text \in TextInputs
    /\ order_raw = <<>> /\ candidates = <<>>
    /\ menu_catalog = NoCatalog /\ thresholds = DefaultThresholds
    /\ structured = NoStructured /\ merged = NoResult
    /\ llm_client = NoClient /\ prompt_ok = TRUE /\ stage = NoStage /\ client_log = <<>>
    /\ ingest = <<>>
    /\ _store = <<>> /\ clock = 0 /\ cache_calls = <<>> /\ last_write = <<>>
    /\ key_inputs = <<>> /\ made_keys = <<>>
    /\ log_file = <<>> /\ o_append = "atomic" /\ audit_calls = <<>>
    /\ written = <<>> /\ listed = <<>>

ParseReceiptText ==
    /\ pc = "text"
    /\ order_raw' = parse_receipt_text(receipt_text)
    /\ pc' = "parsed"
    /\ UNCHANGED <<candidates, menu_catalog, thresholds, structured, merged, call_vars,
                   lib_vars>>

NextParse == ParseReceiptText

SpecParse == InitParse /\ [][NextParse]_vars

\* ------------------------------------------------- claims on parse_receipt_text

Skipped(text, k) ==
    LET normalized == _normalize_for_parse(text[k])
    IN  normalized = "" \/ _is_noise_line(normalized)

StandaloneAt(text, k) == ~Skipped(text, k) /\ _is_standalone_note(text[k]) # None

ItemLineAt(text, k) == ~Skipped(text, k) /\ _is_standalone_note(text[k]) = None

\* the positions of the standalone notes that follow item line j before the next item line
NotesOf(text, j) ==
    {k \in (j + 1)..Len(text) :
        StandaloneAt(text, k) /\ \A m \in (j + 1)..k : ~ItemLineAt(text, m)}

\* note_raw of item line j after the standalone notes up to position n were joined
RECURSIVE JoinedNotes(_, _, _)
JoinedNotes(text, j, n) ==
    IF n = j THEN _parse_line(text[j], j - 1, <<>>).line.note_raw
    ELSE LET sofar == JoinedNotes(text, j, n - 1)
         IN  IF n \notin NotesOf(text, j) THEN sofar
             ELSE IF sofar = None THEN _is_standalone_note(text[n])
             ELSE sofar \o "; " \o _is_standalone_note(text[n])

LinesAt(raw, li) == {i \in 1..Len(raw.lines) : raw.lines[i].line_index = li}

C24_DroppedWitness ==
    /\ pc = "parsed"
    /\ receipt_text = <<"note:spicy", "soup x1">>
    /\ Len(order_raw.lines) = 1
    /\ order_raw.lines[1].note_raw = None
    /\ order_raw.parse_warnings = <<"line 0: standalone note with no preceding item">>
    /\ order_raw.needs_review

\* C25: a receipt of one note-only line parses into exactly one RawLine whose
\* raw_line and name_raw are the text of the line, whose note_raw is the note,
\* with qty 1 and needs_review true, and the order needs review.
C25_NoteOnlyLineKeptAsLine ==
    (/\ pc = "parsed"
     /\ Len(receipt_text) = 1
     /\ StandaloneAt(receipt_text, 1)) =>
        /\ Len(order_raw.lines) = 1
        /\ order_raw.lines[1].raw_line = receipt_text[1]
        /\ order_raw.lines[1].name_raw = receipt_text[1]
        /\ order_raw.lines[1].note_raw = _is_standalone_note(receipt_text[1])
        /\ order_raw.lines[1].qty = 1
        /\ order_raw.lines[1].needs_review
        /\ order_raw.needs_review

\* the note-only receipt parses into no line at all
C25_NoteOnlyReceiptHasNoLine ==
    /\ pc = "parsed"
    /\ receipt_text = <<"note:spicy">>
    /\ order_raw.lines = <<>>
    /\ order_raw.parse_warnings = <<"line 0: standalone note with no preceding item">>
    /\ order_raw.needs_review

\* what holds on the note-only receipt: the order needs review
C25_NoteOnlyReceiptNeedsReview ==
    (/\ pc = "parsed"
     /\ Len(receipt_text) = 1
     /\ StandaloneAt(receipt_text, 1)) =>
        order_raw.lines = <<>> /\ order_raw.needs_review

\* ============================================================ pipeline_entry.py

MaxReceiptLines == 2

STAGES == <<"parse", "candidates", "structured", "merge">>

\* --------------------------------------------------------- generate_candidates

\* the menu catalog of the receipts: item_id and canonical name
CatalogEntries ==
    <<[item_id |-> "I001", canonical_name |-> "dumpling"],
      [item_id |-> "I002", canonical_name |-> "soup"],
      [item_id |-> "I003", canonical_name |-> "rice"]>>

\* _score_match in hundredths: the name of a line against a canonical name. A line the
\* parser fallback kept whole still matches its item, and the text of a note line
\* shares a character with one name
_score_match(query, candidate) ==
    CASE candidate = "soup" /\ query = "soup" -> 10000
      [] candidate = "soup" /\ query = "soup x1" -> 8450
      [] candidate = "soup" /\ query = "note:spicy" -> 2429
      [] OTHER -> 0

\* the sort key (-score, canonical_name, item_id) of a scored catalog entry
ScoredKey(score, entry) ==
    LET names == <<"dumpling", "rice", "soup">>
    IN  (10000 - score) * 10 + (CHOOSE i \in 1..Len(names) : names[i] = entry.canonical_name)

generate_candidates(lines, entries) ==
    LET Ranked(line) ==
            SortedBy(entries,
                     [e \in 1..Len(entries) |->
                         ScoredKey(_score_match(line.name_raw, entries[e].canonical_name),
                                   entries[e])])
    IN  [li \in {lines[i].line_index : i \in 1..Len(lines)} |->
            LET line == lines[CHOOSE i \in 1..Len(lines) : lines[i].line_index = li]
                ranked == Ranked(line)
            IN  [r \in 1..Len(ranked) |->
                    CandidateItem(ranked[r].item_id, ranked[r].canonical_name)]]

\* ------------------------------------------------------------------- fallbacks

\* the text as one string
RECURSIVE JoinLines(_)
JoinLines(text) ==
    IF text = <<>> THEN ""
    ELSE IF Len(text) = 1 THEN text[1]
    ELSE JoinLines(SubSeq(text, 1, Len(text) - 1)) \o "\n" \o text[Len(text)]

FallbackLine(line_index, raw, name_raw) ==
    [line_index |-> line_index, raw_line |-> raw, name_raw |-> name_raw, qty |-> 1,
     note_raw |-> None, needs_review |-> TRUE]

_fallback_raw_lines(text) ==
    LET kept == SelectSeq([k \in 1..Len(text) |-> k], LAMBDA k : Strip(text[k]) # "")
        lines == [i \in 1..Len(kept) |->
                     FallbackLine(kept[i] - 1, text[kept[i]], Strip(text[kept[i]]))]
    IN  IF lines # <<>> THEN lines
        ELSE <<FallbackLine(0, JoinLines(text), "UNKNOWN_LINE")>>

_fallback_order_raw(text, order_id, error) ==
    [source_text |-> text,
     lines |-> _fallback_raw_lines(text),
     order_id |-> order_id,
     parse_warnings |-> <<"pipeline parser fallback: " \o error>>,
     needs_review |-> TRUE,
     metadata |-> [parse_errors |-> <<error>>, fallback_reason |-> "parser_exception"]]

NoFallbackCandidates(raw, error) == [li \in {} |-> <<>>]

_fallback_candidates(raw, error) ==
    [li \in LineIndices(raw) |->
        LET line == raw.lines[CHOOSE i \in 1..Len(raw.lines) : raw.lines[i].line_index = li]
        IN  <<CandidateItem(None, IF line.name_raw # "" THEN line.name_raw
                                  ELSE "UNKNOWN_ITEM")>>]

_fallback_structured(raw, cands, error) ==
    [items |-> ListV([k \in 1..Len(raw.lines) |->
                        StageItem(raw.lines[k],
                                  FirstOf(CandidatesGet(cands, raw.lines[k].line_index)),
                                  <<>>, 0, 0, TRUE,
                                  [fallback_reason |-> "structured_exception",
                                   error |-> error])]),
     groups |-> ListV(<<>>),
     audit_events |-> ListV(<<AuditEvent("pipeline_structured_fallback",
                                         "Structured stage failed, fallback generated",
                                         NoLine, None, {})>>),
     metadata |-> [fallback_reason |-> "structured_exception", error |-> error]]

_fallback_merged(raw, structured_result, error) ==
    LET because == [fallback_reason |-> "merge_exception", error |-> error]
        given == structured_result.items.elems
        safe_items == [i \in 1..Len(given) |->
                          [given[i] EXCEPT !.needs_review = TRUE,
                                           !.metadata = because @@ @]]
        from_lines == [k \in 1..Len(raw.lines) |->
                          StageItem(raw.lines[k], <<>>, <<>>, 0, 0, TRUE, because)]
    IN  [lines |-> raw.lines,
         items |-> IF safe_items # <<>> THEN safe_items ELSE from_lines,
         groups |-> <<>>,
         audit_events |-> structured_result.audit_events.elems
                          \o <<AuditEvent("pipeline_merge_fallback",
                                          "Merge stage failed, fallback generated",
                                          NoLine, None, {})>>,
         overall_needs_review |-> TRUE,
         metadata |-> because]

\* ------------------------------------------------------------- ingest_receipt

\* llm_client is None and the environment holds no API key, or a client is injected
_llm_runtime(client) ==
    IF client.kind = "none" THEN [enabled |-> FALSE, reason |-> "missing_api_key"]
    ELSE [enabled |-> TRUE, reason |-> "injected_client"]

\* f"{stage}:{exc.__class__.__name__}:{exc}"
StageError(stage_name, exc) == stage_name \o ":" \o exc.cls \o ":" \o exc.message

\* accepted and stage_errors after the try statement of a stage
AfterStage(locals, stage_name) ==
    LET outcome == locals.outcomes[stage_name]
    IN  [locals EXCEPT
            !.calls = Append(@, stage_name),
            !.accepted = IF outcome = <<>> THEN @ ELSE FALSE,
            !.stage_errors = IF outcome = <<>> THEN @
                             ELSE Append(@, StageError(stage_name, outcome[1]))]

LastError(locals) == locals.stage_errors[Len(locals.stage_errors)]

\* the locals of llm_normalize_and_group after its attempt loop: without a client, and
\* with a client whose first execution answers
StageLocals(raw, cands, client) ==
    LET begun == [llm_attempts |-> 0, form |-> 0, fallback_reason |-> None,
                  parsed_response |-> <<>>, audit_events |-> <<>>]
    IN  IF client.kind = "none"
        THEN {[begun EXCEPT
                  !.fallback_reason = "llm_client_missing",
                  !.audit_events = <<_audit_llm("llm_client_missing", NoLine,
                                                {"review_queue"})>>]}
        ELSE {[begun EXCEPT !.llm_attempts = 1, !.form = 1, !.parsed_response = <<r>>] :
                 r \in ResponseInputs(raw, cands)}

WithRuntime(metadata, client) ==
    [llm_runtime |-> _llm_runtime(client), llm_timeout_s |-> 15] @@ metadata

KeepingOverall(result, stage_errors, client) ==
    [result EXCEPT !.metadata = WithRuntime(@, client)]

\* merged after lines 290-297 of ingest_receipt
FinalMerged(result, stage_errors, client) ==
    LET flagged == IF stage_errors # <<>>
                   THEN [result EXCEPT
                            !.overall_needs_review = TRUE,
                            !.metadata = [pipeline_errors |-> stage_errors] @@ @]
                   ELSE result
    IN  [flagged EXCEPT !.metadata = WithRuntime(@, client)]

IngestParse ==
    /\ pc = "ingest"
    /\ ingest' = AfterStage(ingest, "parse")
    /\ order_raw' = IF ingest.outcomes["parse"] = <<>>
                    THEN [parse_receipt_text(receipt_text) EXCEPT !.order_id = ingest.order_id]
                    ELSE _fallback_order_raw(receipt_text, ingest.order_id,
                                             LastError(ingest'))
    /\ pc' = "ingest_candidates"
    /\ UNCHANGED <<candidates, menu_catalog, thresholds, structured, merged, call_vars,
                   cache_vars, key_vars, audit_vars, receipt_text>>

IngestCandidates ==
    /\ pc = "ingest_candidates"
    /\ ingest' = AfterStage(ingest, "candidates")
    /\ candidates' = IF ingest.outcomes["candidates"] = <<>>
                     THEN generate_candidates(order_raw.lines, CatalogEntries)
                     ELSE _fallback_candidates(order_raw, LastError(ingest'))
    /\ pc' = "ingest_structured"
    /\ UNCHANGED <<order_raw, menu_catalog, thresholds, structured, merged, call_vars,
                   cache_vars, key_vars, audit_vars, receipt_text>>

IngestStructured ==
    /\ pc = "ingest_structured"
    /\ ingest' = AfterStage(ingest, "structured")
    /\ \E locals \in StageLocals(order_raw, candidates, llm_client) :
          LET result == IF ingest.outcomes["structured"] = <<>>
                        THEN BuiltStructured(order_raw, candidates, AllowedModsInput, locals)
                        ELSE _fallback_structured(order_raw, candidates, LastError(ingest'))
          IN  structured' = [result EXCEPT !.metadata = WithRuntime(@, llm_client)]
    /\ pc' = "ingest_merge"
    /\ UNCHANGED <<order_raw, candidates, menu_catalog, thresholds, merged, call_vars,
                   cache_vars, key_vars, audit_vars, receipt_text>>

IngestMerge ==
    /\ pc = "ingest_merge"
    /\ ingest' = AfterStage(ingest, "merge")
    /\ merged' = IF ingest.outcomes["merge"] = <<>>
                 THEN merge_and_validate(order_raw, candidates, structured, menu_catalog,
                                         thresholds)
                 ELSE _fallback_merged(order_raw, structured, LastError(ingest'))
    /\ pc' = "ingest_respond"
    /\ UNCHANGED <<order_raw, candidates, menu_catalog, thresholds, structured, call_vars,
                   cache_vars, key_vars, audit_vars, receipt_text>>

IngestRespond ==
    /\ pc = "ingest_respond"
    /\ merged' = FinalMerged(merged, ingest.stage_errors, llm_client)
    /\ ingest' = [ingest EXCEPT
                     !.response =
                         <<[accepted |-> ingest.accepted,
                            needs_review |-> \/ order_raw.needs_review
                                             \/ merged'.overall_needs_review
                                             \/ ingest.stage_errors # <<>>,
                            errors |-> ingest.stage_errors,
                            order_raw |-> order_raw,
                            candidates |-> candidates,
                            structured |-> structured,
                            merged |-> merged']>>]
    /\ pc' = "returned"
    /\ UNCHANGED <<order_raw, candidates, menu_catalog, thresholds, structured, call_vars,
                   cache_vars, key_vars, audit_vars, receipt_text>>

\* lines of the receipts given to ingest_receipt
ReceiptLineInputs == {"soup x1", "soup", "note:spicy", "  "}

ReceiptInputs == SeqsUpTo(ReceiptLineInputs, MaxReceiptLines)

\* what a stage does when it is called: it returns, or it raises this exception
OutcomeInputs ==
    {<<>>} \cup {<<[cls |-> c, message |-> "boom"]>> : c \in {"RuntimeError", "ValueError"}}

InitIngest ==
    /\ pc = "ingest"
    /\ receipt_text \in ReceiptInputs
    /\ ingest \in {[order_id |-> "o1", outcomes |-> o, accepted |-> TRUE,
                    stage_errors |-> <<>>, calls |-> <<>>, response |-> <<>>] :
                       o \in [Range(STAGES) -> OutcomeInputs]}
    /\ llm_client \in {NoClient, [kind |-> "complete", accepts |-> {1, 2, 3, 4}]}
    /\ order_raw = <<>> /\ candidates = <<>>
    /\ menu_catalog = MappingCatalog /\ thresholds = DefaultThresholds
    /\ structured = NoStructured /\ merged = NoResult
    /\ prompt_ok = TRUE /\ stage = NoStage /\ client_log = <<>>
    /\ _store = <<>> /\ clock = 0 /\ cache_calls = <<>> /\ last_write = <<>>
    /\ key_inputs = <<>> /\ made_keys = <<>>
    /\ log_file = <<>> /\ o_append = "atomic" /\ audit_calls = <<>>
    /\ written = <<>> /\ listed = <<>>

NextIngest ==
    \/ IngestParse
    \/ IngestCandidates
    \/ IngestStructured
    \/ IngestMerge
    \/ IngestRespond

SpecIngest == InitIngest /\ [][NextIngest]_vars

\* --------------------------------------------------- claims on ingest_receipt

Response == ingest.response[1]

Raised(stage_name) == ingest.outcomes[stage_name] # <<>>

\* C22: in the envelope ingest_receipt returns, accepted is false exactly when errors
\* is non-empty, which is exactly when a stage raised; with errors non-empty
\* needs_review and merged.overall_needs_review are true.
C22_AcceptedIffNoErrors ==
    pc = "returned" =>
        /\ ~Response.accepted <=> Response.errors # <<>>
        /\ Response.errors # <<>> <=> \E s \in Range(STAGES) : Raised(s)
        /\ Response.errors # <<>> =>
              Response.needs_review /\ Response.merged.overall_needs_review

\* an empty receipt whose candidates stage raised: nothing but the error asks for review
C22_Witness ==
    /\ pc = "returned"
    /\ receipt_text = <<>>
    /\ Response.errors = <<"candidates:ValueError:boom">>
    /\ ~Response.accepted
    /\ ~Response.order_raw.needs_review
    /\ Response.needs_review
    /\ Response.merged.overall_needs_review

\* the errors entries of the stages that raise, in stage order
RECURSIVE ExpectedErrors(_)
ExpectedErrors(n) ==
    IF n = 0 THEN <<>>
    ELSE ExpectedErrors(n - 1)
         \o (IF Raised(STAGES[n])
             THEN <<STAGES[n] \o ":" \o ingest.outcomes[STAGES[n]][1].cls \o ":boom">>
             ELSE <<>>)

ErrorOf(stage_name) ==
    stage_name \o ":" \o ingest.outcomes[stage_name][1].cls \o ":boom"

StagesInOrder ==
    /\ ingest.calls = SubSeq(STAGES, 1, Len(ingest.calls))
    /\ pc = "ingest_candidates" => Len(ingest.calls) = 1
    /\ pc = "ingest_structured" => Len(ingest.calls) = 2
    /\ pc \in {"ingest_merge"} => Len(ingest.calls) = 3
    /\ pc \in {"ingest_respond", "returned"} => ingest.calls = STAGES

OutputsOrFallbacks ==
    pc = "returned" =>
        /\ Response.errors = ExpectedErrors(Len(STAGES))
        /\ IF Raised("parse")
           THEN /\ Response.order_raw.metadata.fallback_reason = "parser_exception"
                /\ Response.order_raw.needs_review
                /\ Response.order_raw.lines # <<>>
                /\ \A i \in 1..Len(Response.order_raw.lines) :
                      Response.order_raw.lines[i].needs_review
           ELSE Response.order_raw.lines = parse_receipt_text(receipt_text).lines
        /\ IF Raised("candidates")
           THEN /\ DOMAIN Response.candidates = LineIndices(Response.order_raw)
                /\ \A li \in DOMAIN Response.candidates :
                      /\ Len(Response.candidates[li]) = 1
                      /\ Response.candidates[li][1].candidate_code = None
           ELSE Response.candidates =
                    generate_candidates(Response.order_raw.lines, CatalogEntries)
        /\ IF Raised("structured")
           THEN /\ Response.structured.metadata.fallback_reason = "structured_exception"
                /\ Response.structured.metadata.error = ErrorOf("structured")
                /\ Len(Response.structured.items.elems) = Len(Response.order_raw.lines)
                /\ \A i \in 1..Len(Response.structured.items.elems) :
                      Response.structured.items.elems[i].needs_review
           ELSE Response.structured.metadata.fallback_reason
                    \in {None, "llm_client_missing"}
        /\ IF Raised("merge")
           THEN /\ Response.merged.metadata.fallback_reason = "merge_exception"
                /\ Response.merged.metadata.error = ErrorOf("merge")
                /\ \A i \in 1..Len(Response.merged.items) :
                      Response.merged.items[i].needs_review
           ELSE "dispatch_decision" \in DOMAIN Response.merged.metadata

\* C23: whichever stages raise, ingest_receipt calls parse, candidates, structured and
\* merge once each in this order, uses the fallback of every stage that raised, appends
\* one "stage:ExceptionClass:message" entry per raising stage in stage order, and
\* returns an envelope with all its entries.
C23_EveryStageRunsOnceInOrder ==
    /\ StagesInOrder
    /\ OutputsOrFallbacks
    /\ pc = "returned" =>
          DOMAIN Response = {"accepted", "needs_review", "errors", "order_raw",
                             "candidates", "structured", "merged"}

\* all four stages raised and the envelope was returned
C23_Witness ==
    /\ pc = "returned"
    /\ \A s \in Range(STAGES) : Raised(s)
    /\ ingest.calls = STAGES
    /\ Len(Response.errors) = 4
    /\ receipt_text = <<"soup x1", "note:spicy">>
    /\ Len(Response.merged.items) = 2

\* C27: in the envelope ingest_receipt returns, merged.overall_needs_review = true
\* implies a dispatch_decision in merged.metadata with route "review-queue" and
\* should_auto_dispatch false.
C27_ReviewImpliesReviewQueueRoute ==
    (pc = "returned" /\ Response.merged.overall_needs_review) =>
        /\ "dispatch_decision" \in DOMAIN Response.merged.metadata
        /\ Response.merged.metadata.dispatch_decision.route = _ROUTE_REVIEW_QUEUE
        /\ ~Response.merged.metadata.dispatch_decision.should_auto_dispatch

\* the merge stage raised: the returned order has no dispatch_decision
C27_FallbackWithoutDecision ==
    /\ pc = "returned"
    /\ Raised("merge")
    /\ Response.merged.overall_needs_review
    /\ "dispatch_decision" \notin DOMAIN Response.merged.metadata

\* an earlier stage raised on a receipt without lines: overall_needs_review is set
\* after the dispatch decision was made
C27_FlaggedAfterAutoDispatch ==
    /\ pc = "returned"
    /\ ~Raised("merge")
    /\ Response.merged.overall_needs_review
    /\ Response.merged.metadata.dispatch_decision.route = _ROUTE_AUTO_DISPATCH
    /\ Response.merged.metadata.dispatch_decision.should_auto_dispatch

\* without a raising stage the decision follows overall_needs_review
C27_HoldsWithoutStageErrors ==
    (/\ pc = "returned"
     /\ Response.errors = <<>>
     /\ Response.merged.overall_needs_review) =>
        /\ Response.merged.metadata.dispatch_decision.route = _ROUTE_REVIEW_QUEUE
        /\ ~Response.merged.metadata.dispatch_decision.should_auto_dispatch

====
